---- MODULE Spec2Model ----
(***************************************************************************)
(* HX711 load-cell scale: the bit-banged transport, the sample decoder,    *)
(* the calibration engine (scale.py) and the wiring diagnostics            *)
(* (diagnose_hx711.py, test_raw_gpio.py, debug_continuous.py).             *)
(*                                                                         *)
(* One program runs per behaviour (variable prog).  Its position is pc;    *)
(* nested calls are followed by op (the function the caller invoked) and   *)
(* pc (the statement being executed).  Time is the wall clock read by      *)
(* time.time(), counted in whole seconds since the start of the current    *)
(* readiness wait (elapsed); the clock may advance by any amount between   *)
(* two polls.  Optional values (Python None) are sequences of length 0 or  *)
(* 1.  Floating-point quotients are exact rationals [n, d] in lowest       *)
(* terms with d > 0.                                                       *)
(***************************************************************************)
EXTENDS Integers, Sequences, FiniteSets, TLC

\* ------------------------------------------------------------------ bounds
\* read_average(times): the caller passes times in 0..MaxTimes
MaxTimes == 2
\* the caller of scale.py's functions makes at most MaxCalls calls
MaxCalls == 3
\* debug_continuous.py is followed for MaxCount printed lines
MaxCount == 3

\* ------------------------------------------------------- program constants
\* for _ in range(24): the data bits of one exchange
DataBits == 24
\* wait_ready(timeout=2.0), in seconds
WaitReadyTimeout == 2
\* diagnose_hx711.py: timeout = time.time() + 1.0
DiagTimeout == 1
\* check_ready_signal: timeout = 2.0
ReadySignalTimeout == 2
\* check_sck_toggle: for i in range(25)
TogglePulses == 25
\* test_raw_gpio.py: (time.time() - start) < 2
TestPinsWait == 2
\* test_pigpio.py: timeout = time.time() + 2
PigpioTimeout == 2
\* test_pigpio.py: for i in range(10)
NumReadings == 10
\* 0x800000, the sign bit of the 24-bit magnitude
SignBit == 8388608
\* 0x1000000
TwoTo24 == 16777216
\* 0xFFFFFF
AllOnesWord == 16777215

None == << >>
Some(x) == << x >>

\* ---------------------------------------------------------------- inputs
\* Device words with boundary bytes: every combination of three bytes out of
\* SampleBytes, plus 0x1234AB.
SampleBytes == {0, 1, 127, 128, 255}
FullRangeWords ==
    { b1 * 65536 + b2 * 256 + b3 : b1 \in SampleBytes, b2 \in SampleBytes, b3 \in SampleBytes }
    \cup { 1193131 }
\* Words of a device on the bench, a few counts apart.
BenchWords == {98, 100, 102}
\* the weights the user types at "Enter calibration weight in grams"
KnownWeights == {0, 2}
\* Words of a device under wiring diagnosis: 0x000000, 0xFFFFFF, 0x00FF00,
\* 0x0000FF and 0x1234AB.
DiagWords == {0, 16777215, 65280, 255, 1193131}
\* the pins the scripts name
Pins == {5, 6, 17, 27}
\* test_raw_gpio.py: configs, as (DOUT, SCK)
\* a list that tries the swapped pins before the default ones
ConfigsSwappedFirst == << << 6, 5 >>, << 5, 6 >>, << 17, 27 >>, << 27, 17 >> >>

Configs == << << 5, 6 >>, << 6, 5 >>, << 17, 27 >>, << 27, 17 >>  >>
\* the pin numbers the user passes as --dout and --sck
ArgPins == {5, 6}

\* ----------------------------------------------------------- arithmetic
RECURSIVE GCD(_, _)
GCD(a, b) == IF b = 0 THEN a ELSE GCD(b, a % b)

Abs(x) == IF x < 0 THEN -x ELSE x

\* the rational n/d in lowest terms, d > 0 (d # 0 required)
Norm(n, d) ==
    LET g == GCD(Abs(n), Abs(d))
        s == IF d < 0 THEN -1 ELSE 1
    IN [n |-> s * (n \div g), d |-> s * (d \div g)]

Rat(x) == [n |-> x, d |-> 1]
\* a difference taken the wrong way round
RSubSwapped(a, b) == Norm(b.n * a.d - a.n * b.d, a.d * b.d)

RSub(a, b) == Norm(a.n * b.d - b.n * a.d, a.d * b.d)
\* a / b for b # 0
RDiv(a, b) == Norm(a.n * b.d, a.d * b.n)
IsZero(a) == a.n = 0

RECURSIVE SumSeq(_)
SumSeq(s) == IF s = << >> THEN 0 ELSE s[1] + SumSeq(Tail(s))

\* sum(values) / len(values)
\* a mean that is never divided by the number of samples
MeanUndivided(s) == Norm(SumSeq(s), 1)

Mean(s) == Norm(SumSeq(s), Len(s))

\* bit k (0 = least significant) of m
Bit(m, k) == (m \div (2 ^ k)) % 2

RECURSIVE BitAnd(_, _)
BitAnd(a, b) ==
    IF a = 0 \/ b = 0 THEN 0
    ELSE (a % 2) * (b % 2) + 2 * BitAnd(a \div 2, b \div 2)

\* ------------------------------------------------------ sample decoder
\* a bit loop that fills the word from its least significant end
ShiftInLSB(raw, bit) == raw \div 2 + bit * SignBit

\* raw_value = (raw_value << 1) | bit
ShiftIn(raw, bit) == raw * 2 + bit

\* a conversion that leaves the magnitude as it is
DecodeUnsigned(raw) == raw

\* a conversion that subtracts 0x800000
DecodeHalfOffset(raw) == IF BitAnd(raw, SignBit) # 0 THEN raw - SignBit ELSE raw

\* if raw_value & 0x800000: raw_value -= 0x1000000
Decode(raw) == IF BitAnd(raw, SignBit) # 0 THEN raw - TwoTo24 ELSE raw

\* test_raw_gpio.py: the per-read analysis of the 24-bit pattern
ByteTwo(raw) == (raw \div 256) % 256

ClassifySaturatedFirst(raw) ==
    IF ByteTwo(raw) = 255 THEN "SaturatedMiddleByte"
    ELSE IF raw = AllOnesWord THEN "AllOnes"
    ELSE IF raw = 0 THEN "AllZeros"
    ELSE "Nominal"

Classify(raw) ==
    IF raw = AllOnesWord THEN "AllOnes"
    ELSE IF raw = 0 THEN "AllZeros"
    ELSE IF ByteTwo(raw) = 255 THEN "SaturatedMiddleByte"
    ELSE "Nominal"

\* debug_continuous.py: the Status column
Status(raw) ==
    IF raw = AllOnesWord THEN "AllOnes"
    ELSE IF raw = 0 THEN "AllZeros"
    ELSE "Nominal"

\* test_scale.py: r > 0 and (r & (r + 1)) == 0, on a signed reading
Suspicious(r) == r > 0 /\ BitAnd(r, r + 1) = 0

\* ------------------------------------------------------------------ state
VARIABLES
    prog,       \* the script that runs: "scale", "diagnose", "raw_gpio" or "pigpio"
    device,     \* the words the attached device converts: "fullrange", "bench", "diag"
    pc,         \* the statement the program is at
    DOUT_PIN, SCK_PIN,
    mode,       \* GPIO direction of each pin: "unset", "in", "out"
    level,      \* output level driven on each pin
    word,       \* the bits of its conversion the device has shifted out so far
    elapsed,    \* time.time() - start of the current readiness wait (s)
    i,          \* loop index of the bit loop
    raw_value,
    pulses,     \* clock HIGH-then-LOW pulses emitted in the current attempt
    bits,       \* levels sampled on the data line in the current attempt
    sawLow,     \* some readiness poll of the current attempt read LOW
    op,         \* scale.py function the caller invoked
    times,      \* read_average's argument
    k,          \* read_average's loop index
    values,     \* read_average's list of valid samples
    val,        \* what read_raw returned
    avg,        \* what read_average returned
    known_weight_grams,
    OFFSET, SCALE,
    ret,        \* [op, value]: the last return to the caller
    calls,      \* calls the caller has made
    attempts,   \* read_raw calls of the current top-level call
    comm_ok,    \* diagnose main: what check_sck_toggle returned
    value,      \* diagnose main: what read_raw_value returned
    swapped,    \* what try_swapped_pins returned
    dout_states,\* check_sck_toggle's list of sampled levels
    verdict,    \* diagnose main: "working" or "troubleshooting"
    cfg,        \* test_raw_gpio main: index of the configuration under test
    results,    \* test_raw_gpio main: what test_pins returned, per configuration
    analysis,   \* test_pins: the line it printed about the pattern it read
    timeoutReported, \* test_pins printed TIMEOUT for this configuration
    summary,    \* test_raw_gpio main: the status printed per configuration
    reading,    \* test_pigpio main: index of the reading
    stage,      \* scale.py main: the part of main that runs ("none": no main)
    count,      \* debug_continuous.py: its counter of lines printed
    reports,    \* debug_continuous.py: the Status printed on each line
    deadlines,  \* debug_continuous.py: times `timeout = time.time() + 1` ran
    readings,   \* test_scale.py: the window of readings under judgment
    judgment,   \* test_stability: the line it printed about the window
    fmt,        \* test_reading_formats: index of the format under test
    best_format, best_variance,
    spreads,    \* test_reading_formats: max - min of each format's window
    flags,      \* test_reading_formats: the SUSPICIOUS flag of each format
    format      \* the reading format the HX711 object is set to

progVars == << prog, device >>
gpioVars == << DOUT_PIN, SCK_PIN, mode, level >>
xferVars == << word, elapsed, i, raw_value, pulses, bits, sawLow >>
callVars == << op, times, k, values, val, avg, known_weight_grams, ret, calls, attempts >>
calVars  == << OFFSET, SCALE >>
diagVars == << comm_ok, value, swapped, dout_states, verdict >>
toolVars == << cfg, results, analysis, timeoutReported, summary, reading >>
mainVars == << stage >>
debugVars == << count, reports, deadlines >>
testVars == << readings, judgment, fmt, best_format, best_variance, spreads, flags, format >>
vars == << progVars, pc, gpioVars, xferVars, callVars, calVars, diagVars, toolVars, mainVars,
           debugVars, testVars >>

Words ==
    IF device = "bench" THEN BenchWords
    ELSE IF device = "diag" THEN DiagWords
    ELSE FullRangeWords

\* the level of the clock line
sck == level[SCK_PIN]

\* The data line after the n-th clock pulse of an exchange (n = 0 first): the
\* device shifts out one of Words, bit 23 first; pfx is what it has shifted out.
DataLine(pfx, n) ==
    { Bit(w, DataBits - 1 - n) : w \in { v \in Words : v \div (2 ^ (DataBits - n)) = pfx } }

Init ==
    /\ prog \in {"scale", "diagnose", "raw_gpio", "pigpio", "debug", "test_scale"}
    /\ device \in IF prog = "scale" THEN {"fullrange", "bench"}
                  ELSE IF prog \in {"raw_gpio", "pigpio", "debug", "test_scale"} THEN {"diag"}
                  ELSE {"fullrange"}
    /\ stage \in IF prog = "scale" /\ device = "bench" THEN {"none", "main"} ELSE {"none"}
    /\ pc = "start"
    /\ DOUT_PIN = 5
    /\ SCK_PIN = 6
    /\ mode = [p \in Pins |-> "unset"]
    /\ level = [p \in Pins |-> 0]
    /\ word = 0
    /\ elapsed = 0
    /\ i = 0
    /\ raw_value = 0
    /\ pulses = 0
    /\ bits = << >>
    /\ sawLow = FALSE
    /\ op = "none"
    /\ times = 0
    /\ k = 0
    /\ values = << >>
    /\ val = None
    /\ avg = None
    /\ known_weight_grams = 0
    /\ OFFSET = Rat(0)
    /\ SCALE = Rat(1)
    /\ ret = [op |-> "none", value |-> None]
    /\ calls = 0
    /\ attempts = 0
    /\ comm_ok = FALSE
    /\ value = None
    /\ swapped = None
    /\ dout_states = << >>
    /\ verdict = "none"
    /\ cfg = 1
    /\ results = << >>
    /\ analysis = "none"
    /\ timeoutReported = FALSE
    /\ summary = << >>
    /\ reading = 0
    /\ count = 0
    /\ reports = << >>
    /\ deadlines = 0
    /\ readings = << >>
    /\ judgment = "none"
    /\ fmt = 1
    /\ best_format = None
    /\ best_variance = None
    /\ spreads = << >>
    /\ flags = << >>
    /\ format = << >>

\* ------------------------------------------------------------- GPIO port
\* level[p] is the level the program drives on pin p: 0 for a pin that is
\* no output.
\* GPIO.setup(pin, GPIO.IN): the pin is no longer driven
SetupIn(md, lv, pin) == << [md EXCEPT ![pin] = "in"], [lv EXCEPT ![pin] = 0] >>
\* GPIO.setup(pin, GPIO.OUT) without initial=: the pin drives what its output
\* latch holds, latch, which no statement of the program has set
SetupOut(md, lv, pin, latch) == << [md EXCEPT ![pin] = "out"], [lv EXCEPT ![pin] = latch] >>
\* GPIO.output(pin, v)
Output(lv, pin, v) == [lv EXCEPT ![pin] = v]

\* GPIO.input(DOUT_PIN) while the device is not shifting: any level, unless
\* the data pin is the pin the program drives as its clock
Polled == IF DOUT_PIN = SCK_PIN THEN {level[SCK_PIN]} ELSE {0, 1}

\* GPIO.input(DOUT_PIN) after the n-th clock pulse went LOW
Sampled(pfx, n) == IF DOUT_PIN = SCK_PIN THEN {0} ELSE DataLine(pfx, n)

\* --------------------------------------------- the exchange, statement by
\* statement (scale.py read_raw; the other scripts repeat it verbatim)
\* a new attempt: nothing polled, clocked or sampled yet
NewAttempt ==
    /\ elapsed' = 0
    /\ pulses' = 0
    /\ bits' = << >>
    /\ sawLow' = FALSE
    /\ word' = 0
    /\ i' = 0
    /\ raw_value' = 0

\* the wait saw the line LOW: raw_value = 0 and the bit loop starts; the
\* wait's start time is a local of the wait and is gone with it
StartBitLoop ==
    /\ sawLow' = TRUE
    /\ word' = 0
    /\ raw_value' = 0
    /\ i' = 0
    /\ elapsed' = 0
    /\ UNCHANGED << pulses, bits >>

\* time.sleep(...), or the time between two polls of a busy loop: the clock
\* advances by any amount (it is followed up to limit + 1)
TimePasses(limit) ==
    /\ \E e \in elapsed .. (limit + 1) : elapsed' = e
    /\ UNCHANGED << word, i, raw_value, pulses, bits, sawLow >>

\* GPIO.output(SCK_PIN, 1)
ClockHigh(from, to) ==
    /\ pc = from
    /\ level' = Output(level, SCK_PIN, 1)
    /\ pc' = to
    /\ UNCHANGED << progVars, mainVars, debugVars, testVars, toolVars, DOUT_PIN, SCK_PIN, mode, xferVars, callVars, calVars, diagVars >>

\* GPIO.output(SCK_PIN, 0); raw_value = (raw_value << 1) | GPIO.input(DOUT_PIN)
ClockLowSample(from, to) ==
    /\ pc = from
    /\ i < DataBits
    /\ level' = Output(level, SCK_PIN, 0)
    /\ pulses' = pulses + 1
    /\ \E bit \in Sampled(word, i) :
        /\ bits' = Append(bits, bit)
        /\ raw_value' = ShiftIn(raw_value, bit)
        /\ word' = 2 * word + bit
    /\ i' = i + 1
    /\ pc' = to
    /\ UNCHANGED << progVars, mainVars, debugVars, testVars, toolVars, DOUT_PIN, SCK_PIN, mode, elapsed, sawLow, callVars, calVars,
                    diagVars >>

\* a 25th pulse whose LOW edge is missing
GainPulseLeftHigh ==
    /\ i = DataBits
    /\ level' = Output(level, SCK_PIN, 1)
    /\ pulses' = pulses + 1
    /\ UNCHANGED << DOUT_PIN, SCK_PIN, mode, word, elapsed, i, raw_value, bits, sawLow >>

\* two pulses after the data bits
GainPulseTwice ==
    /\ i = DataBits
    /\ level' = Output(level, SCK_PIN, 0)
    /\ pulses' = pulses + 2
    /\ UNCHANGED << DOUT_PIN, SCK_PIN, mode, word, elapsed, i, raw_value, bits, sawLow >>

\* the LOW edge of the pulse that follows the 24 data bits: nothing is sampled
GainPulseLow ==
    /\ i = DataBits
    /\ level' = Output(level, SCK_PIN, 0)
    /\ pulses' = pulses + 1
    /\ UNCHANGED << DOUT_PIN, SCK_PIN, mode, word, elapsed, i, raw_value, bits, sawLow >>

\* ------------------------------------------------------------- scale.py
setup ==
    /\ prog = "scale"
    /\ pc = "start"
    /\ \E latch \in {0, 1} :
        LET a == SetupIn(mode, level, DOUT_PIN)
            b == SetupOut(a[1], a[2], SCK_PIN, latch)
        IN /\ mode' = b[1]
           /\ level' = Output(b[2], SCK_PIN, 0)
    /\ pc' = "idle"
    /\ UNCHANGED << progVars, mainVars, debugVars, testVars, toolVars, DOUT_PIN, SCK_PIN, xferVars, callVars, calVars, diagVars >>

\* entering read_raw for the n-th time in this call: wait_ready takes
\* start = time.time()
EnterReadRaw(n) ==
    /\ pc' = "wait_ready"
    /\ NewAttempt
    /\ attempts' = n
    /\ val' = None

\* a wait_ready that reports ready once the deadline has passed
wait_ready_TrueAtDeadline ==
    /\ prog = "scale"
    /\ pc = "wait_ready"
    /\ \E dout \in Polled :
        IF dout = 0
        THEN /\ StartBitLoop
             /\ pc' = "sck_high"
             /\ val' = val
        ELSE IF elapsed > WaitReadyTimeout
        THEN /\ pc' = "sck_high"
             /\ val' = val
             /\ UNCHANGED xferVars
        ELSE /\ TimePasses(WaitReadyTimeout)
             /\ UNCHANGED << pc, val >>
    /\ UNCHANGED << progVars, mainVars, debugVars, testVars, toolVars, gpioVars, op, times, k, values, avg,
                    known_weight_grams, ret, calls, attempts, calVars, diagVars >>

\* a wait_ready that looks at the deadline before it looks at the line
wait_ready_DeadlineFirst ==
    /\ prog = "scale"
    /\ pc = "wait_ready"
    /\ IF elapsed > WaitReadyTimeout
       THEN /\ pc' = "read_raw_ret"
            /\ val' = None
            /\ UNCHANGED xferVars
       ELSE \E dout \in Polled :
            IF dout = 0
            THEN /\ StartBitLoop
                 /\ pc' = "sck_high"
                 /\ val' = val
            ELSE /\ TimePasses(WaitReadyTimeout)
                 /\ UNCHANGED << pc, val >>
    /\ UNCHANGED << progVars, mainVars, debugVars, testVars, toolVars, gpioVars, op, times, k, values, avg,
                    known_weight_grams, ret, calls, attempts, calVars, diagVars >>

\* one iteration of wait_ready's loop: is_ready(), the deadline, the sleep
wait_ready ==
    /\ prog = "scale"
    /\ pc = "wait_ready"
    /\ \E dout \in Polled :
        IF dout = 0
        THEN \* return True; read_raw starts the bit loop
             /\ StartBitLoop
             /\ pc' = "sck_high"
             /\ val' = val
        ELSE IF elapsed > WaitReadyTimeout
        THEN \* return False; read_raw returns None
             /\ val' = None
             /\ pc' = "read_raw_ret"
             /\ UNCHANGED xferVars
        ELSE \* time.sleep(0.001)
             /\ TimePasses(WaitReadyTimeout)
             /\ UNCHANGED << pc, val >>
    /\ UNCHANGED << progVars, mainVars, debugVars, testVars, toolVars, gpioVars, op, times, k, values, avg, known_weight_grams,
                    ret, calls, attempts, calVars, diagVars >>

read_raw_sck_high ==
    /\ prog = "scale"
    /\ ClockHigh("sck_high", "sck_low")

read_raw_bit ==
    /\ prog = "scale"
    /\ ClockLowSample("sck_low", "sck_high")

\* the 25th pulse's LOW edge, the two's complement conversion and the return
read_raw_gain ==
    /\ prog = "scale"
    /\ pc = "sck_low"
    /\ GainPulseLow
    /\ val' = Some(Decode(raw_value))
    /\ pc' = "read_raw_ret"
    /\ UNCHANGED << progVars, mainVars, debugVars, testVars, toolVars, op, times, k, values, avg, known_weight_grams,
                    ret, calls, attempts, calVars, diagVars >>

\* ---------------------------------------------------- the caller's calls
\* the functions a session with this device calls
Ops ==
    IF stage # "none" THEN {}
    ELSE IF device = "bench"
    THEN {"read_raw", "get_weight", "read_average", "tare", "calibrate", "get_weight_average"}
    ELSE {"read_raw", "get_weight"}

Averaging == {"read_average", "tare", "calibrate", "get_weight_average"}

NoReturn == [op |-> "none", value |-> None]

\* the return of function f with value v to the caller
Return(f, v) ==
    /\ ret' = [op |-> f, value |-> v]
    /\ op' = "none"
    /\ pc' = "idle"

\* an uncaught ZeroDivisionError ends the program
Raise ==
    /\ pc' = "ZeroDivisionError"
    /\ UNCHANGED << ret, op >>

\* val = read_raw(), called by the caller or by get_weight
call_read_raw ==
    /\ prog = "scale"
    /\ pc = "idle"
    /\ calls < MaxCalls
    /\ \E f \in Ops \cap {"read_raw", "get_weight"} : op' = f
    /\ calls' = calls + 1
    /\ ret' = NoReturn
    /\ EnterReadRaw(1)
    /\ times' = 0
    /\ k' = 0
    /\ values' = << >>
    /\ avg' = None
    /\ known_weight_grams' = 0
    /\ UNCHANGED << progVars, mainVars, debugVars, testVars, toolVars, gpioVars, calVars, diagVars >>

\* avg = read_average(times), called by the caller, tare, calibrate or
\* get_weight_average: values = [] and the first iteration of the loop
call_read_average ==
    /\ prog = "scale"
    /\ pc = "idle"
    /\ calls < MaxCalls
    /\ \E f \in Ops \cap Averaging, n \in 0 .. MaxTimes, w \in KnownWeights :
        /\ op' = f
        /\ times' = n
        /\ known_weight_grams' = IF f = "calibrate" THEN w ELSE 0
        /\ k' = 0
        /\ values' = << >>
        /\ avg' = None
        /\ IF n > 0
           THEN EnterReadRaw(1)
           ELSE /\ pc' = "read_average_ret"
                /\ NewAttempt
                /\ attempts' = 0
                /\ val' = None
    /\ calls' = calls + 1
    /\ ret' = NoReturn
    /\ UNCHANGED << progVars, mainVars, debugVars, testVars, toolVars, gpioVars, calVars, diagVars >>

\* a read_average that leaves its loop at the first read that timed out
read_average_StopsAtTimeout ==
    /\ prog = "scale"
    /\ pc = "read_raw_ret"
    /\ op \in Averaging
    /\ values' = IF val # None THEN Append(values, val[1]) ELSE values
    /\ k' = k + 1
    /\ IF k + 1 < times /\ val # None
       THEN /\ EnterReadRaw(attempts + 1)
            /\ avg' = avg
       ELSE /\ avg' = IF values' # << >> THEN Some(Mean(values')) ELSE None
            /\ pc' = "read_average_ret"
            /\ UNCHANGED << xferVars, attempts, val >>
    /\ UNCHANGED << progVars, mainVars, debugVars, testVars, toolVars, gpioVars, op, times, known_weight_grams, ret, calls,
                    calVars, diagVars >>

\* the body of read_average's loop after read_raw returned: the append, the
\* sleep, the next read_raw or the mean
read_average ==
    /\ prog = "scale"
    /\ pc = "read_raw_ret"
    /\ op \in Averaging
    /\ values' = IF val # None THEN Append(values, val[1]) ELSE values
    /\ k' = k + 1
    /\ IF k + 1 < times
       THEN /\ EnterReadRaw(attempts + 1)
            /\ avg' = avg
       ELSE /\ avg' = IF values' # << >> THEN Some(Mean(values')) ELSE None
            /\ pc' = "read_average_ret"
            /\ UNCHANGED << xferVars, attempts, val >>
    /\ UNCHANGED << progVars, mainVars, debugVars, testVars, toolVars, gpioVars, op, times, known_weight_grams, ret, calls,
                    calVars, diagVars >>

\* read_raw returns to the caller
read_raw ==
    /\ prog = "scale"
    /\ pc = "read_raw_ret"
    /\ op = "read_raw"
    /\ Return(op, val)
    /\ UNCHANGED << progVars, mainVars, debugVars, testVars, toolVars, gpioVars, xferVars, times, k, values, val, avg,
                    known_weight_grams, calls, attempts, calVars, diagVars >>

\* read_average returns to the caller
read_average_return ==
    /\ prog = "scale"
    /\ pc = "read_average_ret"
    /\ op = "read_average"
    /\ Return(op, avg)
    /\ UNCHANGED << progVars, mainVars, debugVars, testVars, toolVars, gpioVars, xferVars, times, k, values, val, avg,
                    known_weight_grams, calls, attempts, calVars, diagVars >>

\* a tare that clears OFFSET when it fails
tare_ClearsOnFailure ==
    /\ prog = "scale"
    /\ pc = "read_average_ret"
    /\ op = "tare"
    /\ IF avg # None
       THEN /\ OFFSET' = avg[1]
            /\ Return(op, TRUE)
       ELSE /\ OFFSET' = Rat(0)
            /\ Return(op, FALSE)
    /\ UNCHANGED << progVars, mainVars, debugVars, testVars, toolVars, gpioVars, xferVars, times, k, values, val, avg,
                    known_weight_grams, calls, attempts, SCALE, diagVars >>

tare ==
    /\ prog = "scale"
    /\ pc = "read_average_ret"
    /\ op = "tare"
    /\ IF avg # None
       THEN /\ OFFSET' = avg[1]
            /\ Return(op, TRUE)
       ELSE /\ OFFSET' = OFFSET
            /\ Return(op, FALSE)
    /\ UNCHANGED << progVars, mainVars, debugVars, testVars, toolVars, gpioVars, xferVars, times, k, values, val, avg,
                    known_weight_grams, calls, attempts, SCALE, diagVars >>

\* SCALE = (avg - OFFSET) / known_weight_grams raises ZeroDivisionError for a
\* zero weight, and nothing catches it (main catches ValueError only)
calibrate ==
    /\ prog = "scale"
    /\ pc = "read_average_ret"
    /\ op = "calibrate"
    /\ IF avg # None
       THEN IF known_weight_grams = 0
            THEN /\ Raise
                 /\ SCALE' = SCALE
            ELSE /\ SCALE' = RDiv(RSub(avg[1], OFFSET), Rat(known_weight_grams))
                 /\ Return(op, TRUE)
       ELSE /\ SCALE' = SCALE
            /\ Return(op, FALSE)
    /\ UNCHANGED << progVars, mainVars, debugVars, testVars, toolVars, gpioVars, xferVars, times, k, values, val, avg,
                    known_weight_grams, calls, attempts, OFFSET, diagVars >>

\* (x - OFFSET) / SCALE, for SCALE # 0
ToWeight(x) == RDiv(RSub(x, OFFSET), SCALE)

\* a get_weight that tests `if raw:` in place of `if raw is not None:`
get_weight_Truthy ==
    /\ prog = "scale"
    /\ pc = "read_raw_ret"
    /\ op = "get_weight"
    /\ IF val # None /\ val[1] # 0
       THEN IF IsZero(SCALE)
            THEN Raise
            ELSE Return(op, Some(ToWeight(Rat(val[1]))))
       ELSE Return(op, None)
    /\ UNCHANGED << progVars, mainVars, debugVars, testVars, toolVars, gpioVars, xferVars, times, k, values, val, avg,
                    known_weight_grams, calls, attempts, calVars, diagVars >>

get_weight ==
    /\ prog = "scale"
    /\ pc = "read_raw_ret"
    /\ op = "get_weight"
    /\ IF val # None
       THEN IF IsZero(SCALE)
            THEN Raise
            ELSE Return(op, Some(ToWeight(Rat(val[1]))))
       ELSE Return(op, None)
    /\ UNCHANGED << progVars, mainVars, debugVars, testVars, toolVars, gpioVars, xferVars, times, k, values, val, avg,
                    known_weight_grams, calls, attempts, calVars, diagVars >>

get_weight_average ==
    /\ prog = "scale"
    /\ pc = "read_average_ret"
    /\ op = "get_weight_average"
    /\ IF avg # None
       THEN IF IsZero(SCALE)
            THEN Raise
            ELSE Return(op, Some(ToWeight(avg[1])))
       ELSE Return(op, None)
    /\ UNCHANGED << progVars, mainVars, debugVars, testVars, toolVars, gpioVars, xferVars, times, k, values, val, avg,
                    known_weight_grams, calls, attempts, calVars, diagVars >>

ScaleNext ==
    \/ setup
    \/ wait_ready
    \/ read_raw_sck_high
    \/ read_raw_bit
    \/ read_raw_gain
    \/ call_read_raw
    \/ call_read_average
    \/ read_average
    \/ read_raw
    \/ read_average_return
    \/ tare
    \/ calibrate
    \/ get_weight
    \/ get_weight_average

\* ------------------------------------------------------ diagnose_hx711.py
\* GPIO.cleanup(): every pin the program set up is an input again
Cleanup(md, lv) == << [p \in Pins |-> "unset"], [p \in Pins |-> 0] >>

\* one iteration of a readiness loop `while GPIO.input(DOUT_PIN) == GPIO.HIGH`
\* with the deadline `limit`: onReady when the line reads LOW, onTimeout when
\* it reads HIGH past the deadline
\* a wait that goes on to the bit loop when its deadline has passed
PollReadyIgnoresTimeout(limit, onReady, onTimeout) ==
    \E dout \in Polled :
        IF dout = 0
        THEN /\ StartBitLoop
             /\ pc' = onReady
        ELSE IF elapsed > limit
        THEN /\ pc' = onReady
             /\ UNCHANGED xferVars
        ELSE /\ TimePasses(limit)
             /\ pc' = pc

PollReady(limit, onReady, onTimeout) ==
    \E dout \in Polled :
        IF dout = 0
        THEN /\ StartBitLoop
             /\ pc' = onReady
        ELSE IF elapsed > limit
        THEN /\ pc' = onTimeout
             /\ UNCHANGED xferVars
        ELSE /\ TimePasses(limit)
             /\ pc' = pc

\* the clock pin is made an output and not written
setup_gpio ==
    /\ prog = "diagnose"
    /\ pc = "start"
    /\ \E latch \in {0, 1} :
        LET a == SetupIn(mode, level, DOUT_PIN)
            b == SetupOut(a[1], a[2], SCK_PIN, latch)
        IN /\ mode' = b[1]
           /\ level' = b[2]
    /\ pc' = "check_dout_state"
    /\ UNCHANGED << progVars, mainVars, debugVars, testVars, toolVars, DOUT_PIN, SCK_PIN, xferVars, callVars, calVars, diagVars >>

\* SCK LOW, then one read of DOUT; main ignores the result
check_dout_state ==
    /\ prog = "diagnose"
    /\ pc = "check_dout_state"
    /\ level' = Output(level, SCK_PIN, 0)
    /\ \E dout_state \in Polled : sawLow' = (dout_state = 0)
    /\ pc' = "check_ready_signal"
    /\ UNCHANGED << progVars, mainVars, debugVars, testVars, toolVars, DOUT_PIN, SCK_PIN, mode, word, elapsed, i, raw_value, pulses,
                    bits, callVars, calVars, diagVars >>

\* check_ready_signal: SCK LOW and start_time = time.time()
check_ready_signal ==
    /\ prog = "diagnose"
    /\ pc = "check_ready_signal"
    /\ level' = Output(level, SCK_PIN, 0)
    /\ NewAttempt
    /\ pc' = "ready_wait"
    /\ UNCHANGED << progVars, mainVars, debugVars, testVars, toolVars, DOUT_PIN, SCK_PIN, mode, callVars, calVars, diagVars >>

\* its loop; main ignores whether it returned True or False
check_ready_signal_wait ==
    /\ prog = "diagnose"
    /\ pc = "ready_wait"
    /\ PollReady(ReadySignalTimeout, "check_sck_toggle", "check_sck_toggle")
    /\ UNCHANGED << progVars, mainVars, debugVars, testVars, toolVars, gpioVars, callVars, calVars, diagVars >>

\* check_sck_toggle: initial_dout is read and dout_states = []
check_sck_toggle ==
    /\ prog = "diagnose"
    /\ pc = "check_sck_toggle"
    /\ dout_states' = << >>
    /\ pulses' = 0
    /\ bits' = << >>
    /\ word' = 0
    /\ i' = 0
    /\ pc' = "toggle_high"
    /\ UNCHANGED << progVars, mainVars, debugVars, testVars, toolVars, gpioVars, elapsed, raw_value, sawLow, callVars, calVars,
                    comm_ok, value, swapped, verdict >>

check_sck_toggle_high ==
    /\ prog = "diagnose"
    /\ ClockHigh("toggle_high", "toggle_low")

\* highs == 25 or lows == 25 is a fault, anything else "communication working"
CommOk(states) ==
    LET highs == SumSeq(states)
        lows == Len(states) - highs
    IN ~(highs = TogglePulses) /\ ~(lows = TogglePulses)

\* SCK LOW and dout_states.append(GPIO.input(DOUT_PIN)); after the 25th
\* pulse the verdict of the check
check_sck_toggle_low ==
    /\ prog = "diagnose"
    /\ pc = "toggle_low"
    /\ i < TogglePulses
    /\ level' = Output(level, SCK_PIN, 0)
    /\ pulses' = pulses + 1
    /\ \E bit \in IF i < DataBits THEN Sampled(word, i) ELSE Polled :
        /\ dout_states' = Append(dout_states, bit)
        /\ bits' = Append(bits, bit)
        /\ word' = IF i < DataBits THEN 2 * word + bit ELSE word
    /\ i' = i + 1
    /\ IF i + 1 < TogglePulses
       THEN /\ pc' = "toggle_high"
            /\ comm_ok' = comm_ok
       ELSE /\ pc' = "read_raw_value"
            /\ comm_ok' = CommOk(dout_states')
    /\ UNCHANGED << progVars, mainVars, debugVars, testVars, toolVars, DOUT_PIN, SCK_PIN, mode, elapsed, raw_value, sawLow, callVars,
                    calVars, value, swapped, verdict >>

\* read_raw_value: SCK LOW and timeout = time.time() + 1.0 (the list of
\* check_sck_toggle is gone, main kept comm_ok)
read_raw_value ==
    /\ prog = "diagnose"
    /\ pc = "read_raw_value"
    /\ level' = Output(level, SCK_PIN, 0)
    /\ NewAttempt
    /\ dout_states' = << >>
    /\ pc' = "rrv_wait"
    /\ UNCHANGED << progVars, mainVars, debugVars, testVars, toolVars, DOUT_PIN, SCK_PIN, mode, callVars, calVars, comm_ok, value,
                    swapped, verdict >>

\* its busy loop; on the timeout it returns None
read_raw_value_wait ==
    /\ prog = "diagnose"
    /\ pc = "rrv_wait"
    /\ PollReady(DiagTimeout, "rrv_high", "main_after_read")
    /\ value' = IF pc' = "main_after_read" THEN None ELSE value
    /\ UNCHANGED << progVars, mainVars, debugVars, testVars, toolVars, gpioVars, callVars, calVars, comm_ok, swapped, dout_states,
                    verdict >>

read_raw_value_sck_high ==
    /\ prog = "diagnose"
    /\ ClockHigh("rrv_high", "rrv_low")

read_raw_value_bit ==
    /\ prog = "diagnose"
    /\ ClockLowSample("rrv_low", "rrv_high")

\* what read_raw_value returns for the 24-bit pattern raw
\* a pattern check that also rejects a saturated middle byte
ReadRawValueRejectsSaturated(raw) ==
    IF raw = AllOnesWord THEN None
    ELSE IF raw = 0 THEN None
    ELSE IF ByteTwo(raw) = 255 THEN None
    ELSE Some(Decode(raw))

ReadRawValueResult(raw) ==
    IF raw = AllOnesWord THEN None
    ELSE IF raw = 0 THEN None
    ELSE Some(Decode(raw))

\* the 25th pulse's LOW edge, the conversion, the check of the pattern
read_raw_value_gain ==
    /\ prog = "diagnose"
    /\ pc = "rrv_low"
    /\ GainPulseLow
    /\ value' = ReadRawValueResult(raw_value)
    /\ pc' = "main_after_read"
    /\ UNCHANGED << progVars, mainVars, debugVars, testVars, toolVars, callVars, calVars, comm_ok, swapped, dout_states, verdict >>

\* main: `if value is None and not comm_ok: try_swapped_pins()`; the pins
\* are swapped and set up again, SCK LOW, timeout = time.time() + 1.0
try_swapped_pins ==
    /\ prog = "diagnose"
    /\ pc = "main_after_read"
    /\ value = None /\ ~comm_ok
    /\ DOUT_PIN' = SCK_PIN
    /\ SCK_PIN' = DOUT_PIN
    /\ \E latch \in {0, 1} :
        LET a == SetupIn(mode, level, DOUT_PIN')
            b == SetupOut(a[1], a[2], SCK_PIN', latch)
        IN /\ mode' = b[1]
           /\ level' = Output(b[2], SCK_PIN', 0)
    /\ NewAttempt
    /\ pc' = "swap_wait"
    /\ UNCHANGED << progVars, mainVars, debugVars, testVars, toolVars, callVars, calVars, diagVars >>

try_swapped_pins_wait ==
    /\ prog = "diagnose"
    /\ pc = "swap_wait"
    /\ PollReady(DiagTimeout, "swap_high", "verdict")
    /\ swapped' = IF pc' = "verdict" THEN None ELSE swapped
    /\ UNCHANGED << progVars, mainVars, debugVars, testVars, toolVars, gpioVars, callVars, calVars, comm_ok, value, dout_states,
                    verdict >>

try_swapped_pins_sck_high ==
    /\ prog = "diagnose"
    /\ ClockHigh("swap_high", "swap_low")

try_swapped_pins_bit ==
    /\ prog = "diagnose"
    /\ ClockLowSample("swap_low", "swap_high")

\* what try_swapped_pins returns for the 24-bit pattern raw
SwappedResult(raw) ==
    IF raw # AllOnesWord /\ raw # 0 THEN Some(Decode(raw)) ELSE None

try_swapped_pins_gain ==
    /\ prog = "diagnose"
    /\ pc = "swap_low"
    /\ GainPulseLow
    /\ swapped' = SwappedResult(raw_value)
    /\ pc' = "verdict"
    /\ UNCHANGED << progVars, mainVars, debugVars, testVars, toolVars, callVars, calVars, comm_ok, value, dout_states, verdict >>

\* a verdict that also counts what try_swapped_pins returned
main_verdict_CountsSwapped ==
    /\ prog = "diagnose"
    /\ \/ pc = "verdict"
       \/ pc = "main_after_read" /\ ~(value = None /\ ~comm_ok)
    /\ verdict' = IF value # None \/ swapped # None THEN "working" ELSE "troubleshooting"
    /\ LET c == Cleanup(mode, level)
       IN /\ mode' = c[1]
          /\ level' = c[2]
    /\ pc' = "done"
    /\ UNCHANGED << progVars, mainVars, debugVars, testVars, toolVars, DOUT_PIN, SCK_PIN, xferVars, callVars, calVars, comm_ok,
                    value, swapped, dout_states >>

\* main: `if value is not None and value != -1`, then GPIO.cleanup()
main_verdict ==
    /\ prog = "diagnose"
    /\ \/ pc = "verdict"
       \/ pc = "main_after_read" /\ ~(value = None /\ ~comm_ok)
    /\ verdict' = IF value # None /\ value # Some(-1) THEN "working" ELSE "troubleshooting"
    /\ LET c == Cleanup(mode, level)
       IN /\ mode' = c[1]
          /\ level' = c[2]
    /\ pc' = "done"
    /\ UNCHANGED << progVars, mainVars, debugVars, testVars, toolVars, DOUT_PIN, SCK_PIN, xferVars, callVars, calVars, comm_ok,
                    value, swapped, dout_states >>

DiagNext ==
    \/ setup_gpio
    \/ check_dout_state
    \/ check_ready_signal
    \/ check_ready_signal_wait
    \/ check_sck_toggle
    \/ check_sck_toggle_high
    \/ check_sck_toggle_low
    \/ read_raw_value
    \/ read_raw_value_wait
    \/ read_raw_value_sck_high
    \/ read_raw_value_bit
    \/ read_raw_value_gain
    \/ try_swapped_pins
    \/ try_swapped_pins_wait
    \/ try_swapped_pins_sck_high
    \/ try_swapped_pins_bit
    \/ try_swapped_pins_gain
    \/ main_verdict

\* -------------------------------------------------------- test_raw_gpio.py
\* main's loop body up to test_pins's first read of DOUT: GPIO.cleanup(), the
\* pins of configuration cfg set up, SCK LOW, dout_state = GPIO.input(dout_pin)
test_pins ==
    /\ prog = "raw_gpio"
    /\ pc \in {"start", "next_config"}
    /\ cfg <= Len(Configs)
    /\ DOUT_PIN' = Configs[cfg][1]
    /\ SCK_PIN' = Configs[cfg][2]
    /\ \E latch \in {0, 1} :
        LET c == Cleanup(mode, level)
            a == SetupIn(c[1], c[2], DOUT_PIN')
            b == SetupOut(a[1], a[2], SCK_PIN', latch)
        IN /\ mode' = b[1]
           /\ level' = Output(b[2], SCK_PIN', 0)
    /\ elapsed' = 0
    /\ pulses' = 0
    /\ bits' = << >>
    /\ word' = 0
    /\ i' = 0
    /\ raw_value' = 0
    /\ analysis' = "none"
    /\ timeoutReported' = FALSE
    /\ \E dout_state \in {0, 1} :
        /\ sawLow' = (dout_state = 0)
        /\ pc' = IF dout_state = 1 THEN "tp_wait" ELSE "tp_step2"
    /\ UNCHANGED << progVars, mainVars, debugVars, testVars, callVars, calVars, diagVars, cfg, results, summary, reading >>

\* `while GPIO.input(dout_pin) == 1 and (time.time() - start) < 2`, and after
\* the loop dout_state = GPIO.input(dout_pin) and the TIMEOUT line
test_pins_wait ==
    /\ prog = "raw_gpio"
    /\ pc = "tp_wait"
    /\ \E dout \in Polled :
        IF dout = 1 /\ elapsed < TestPinsWait
        THEN /\ TimePasses(TestPinsWait - 1)
             /\ UNCHANGED << pc, timeoutReported >>
        ELSE \E dout_state \in Polled :
             /\ timeoutReported' = (dout_state = 1)
             /\ sawLow' = (sawLow \/ dout = 0 \/ dout_state = 0)
             /\ pc' = "tp_step2"
             /\ UNCHANGED << word, elapsed, i, raw_value, pulses, bits >>
    /\ UNCHANGED << progVars, mainVars, debugVars, testVars, gpioVars, callVars, calVars, diagVars, cfg, results, analysis,
                    summary, reading >>

\* `if GPIO.input(dout_pin) == 0:` starts the bit loop, else `return None`
test_pins_step2 ==
    /\ prog = "raw_gpio"
    /\ pc = "tp_step2"
    /\ \E dout \in Polled :
        IF dout = 0
        THEN /\ StartBitLoop
             /\ pc' = "tp_high"
             /\ UNCHANGED << results, cfg >>
        ELSE /\ results' = Append(results, None)
             /\ cfg' = cfg + 1
             /\ pc' = "next_config"
             /\ UNCHANGED xferVars
    /\ UNCHANGED << progVars, mainVars, debugVars, testVars, gpioVars, callVars, calVars, diagVars, analysis,
                    timeoutReported, summary, reading >>

test_pins_sck_high ==
    /\ prog = "raw_gpio"
    /\ ClockHigh("tp_high", "tp_low")

test_pins_bit ==
    /\ prog = "raw_gpio"
    /\ ClockLowSample("tp_low", "tp_high")

\* the 25th pulse's LOW edge, the analysis of the pattern, `return raw_value`
\* and main's results.append
test_pins_gain ==
    /\ prog = "raw_gpio"
    /\ pc = "tp_low"
    /\ GainPulseLow
    /\ analysis' = Classify(raw_value)
    /\ results' = Append(results, Some(raw_value))
    /\ cfg' = cfg + 1
    /\ pc' = "next_config"
    /\ UNCHANGED << progVars, mainVars, debugVars, testVars, callVars, calVars, diagVars, timeoutReported, summary, reading >>

\* the status main's summary prints for a result
SummaryStatus(result) ==
    IF result = None THEN "TIMEOUT"
    ELSE IF result[1] = AllOnesWord THEN "ALL 1s"
    ELSE IF result[1] = 0 THEN "ALL 0s"
    ELSE "OK"

\* after the last configuration: the summary, then GPIO.cleanup()
main_summary ==
    /\ prog = "raw_gpio"
    /\ pc = "next_config"
    /\ cfg > Len(Configs)
    /\ summary' = [j \in 1 .. Len(results) |-> SummaryStatus(results[j])]
    /\ LET c == Cleanup(mode, level)
       IN /\ mode' = c[1]
          /\ level' = c[2]
    /\ pc' = "done"
    /\ UNCHANGED << progVars, mainVars, debugVars, testVars, DOUT_PIN, SCK_PIN, xferVars, callVars, calVars, diagVars, cfg,
                    results, analysis, timeoutReported, reading >>

RawGpioNext ==
    \/ test_pins
    \/ test_pins_wait
    \/ test_pins_step2
    \/ test_pins_sck_high
    \/ test_pins_bit
    \/ test_pins_gain
    \/ main_summary

\* ---------------------------------------------------------- test_pigpio.py
\* main up to the loop: the pins from --dout and --sck, set_mode, SCK LOW
pigpio_main ==
    /\ prog = "pigpio"
    /\ pc = "start"
    /\ \E d \in ArgPins, c \in ArgPins :
        /\ DOUT_PIN' = d
        /\ SCK_PIN' = c
    /\ \E latch \in {0, 1} :
        LET a == SetupIn(mode, level, DOUT_PIN')
            b == SetupOut(a[1], a[2], SCK_PIN', latch)
        IN /\ mode' = b[1]
           /\ level' = Output(b[2], SCK_PIN', 0)
    /\ reading' = 0
    /\ pc' = "pg_reading"
    /\ UNCHANGED << progVars, mainVars, debugVars, testVars, xferVars, callVars, calVars, diagVars, cfg, results, analysis,
                    timeoutReported, summary >>

\* the head of `for i in range(10)` and timeout = time.time() + 2; after the
\* loop pi.write(SCK_PIN, 0)
pigpio_reading ==
    /\ prog = "pigpio"
    /\ pc = "pg_reading"
    /\ IF reading < NumReadings
       THEN /\ NewAttempt
            /\ pc' = "pg_wait"
            /\ level' = level
       ELSE /\ level' = Output(level, SCK_PIN, 0)
            /\ pc' = "done"
            /\ UNCHANGED xferVars
    /\ val' = None
    /\ UNCHANGED << progVars, mainVars, debugVars, testVars, toolVars, DOUT_PIN, SCK_PIN, mode, op, times, k, values, avg,
                    known_weight_grams, ret, calls, attempts, calVars, diagVars >>

\* the busy loop; on the timeout: the TIMEOUT line and break
pigpio_wait ==
    /\ prog = "pigpio"
    /\ pc = "pg_wait"
    /\ PollReady(PigpioTimeout, "pg_high", "pg_sleep")
    /\ UNCHANGED << progVars, mainVars, debugVars, testVars, toolVars, gpioVars, callVars, calVars, diagVars >>

pigpio_sck_high ==
    /\ prog = "pigpio"
    /\ ClockHigh("pg_high", "pg_low")

pigpio_bit ==
    /\ prog = "pigpio"
    /\ ClockLowSample("pg_low", "pg_high")

\* the 25th pulse's LOW edge and signed_value
pigpio_gain ==
    /\ prog = "pigpio"
    /\ pc = "pg_low"
    /\ GainPulseLow
    /\ val' = Some(Decode(raw_value))
    /\ pc' = "pg_sleep"
    /\ UNCHANGED << progVars, mainVars, debugVars, testVars, toolVars, op, times, k, values, avg, known_weight_grams, ret,
                    calls, attempts, calVars, diagVars >>

\* time.sleep(0.1) and the next reading
pigpio_sleep ==
    /\ prog = "pigpio"
    /\ pc = "pg_sleep"
    /\ reading' = reading + 1
    /\ pc' = "pg_reading"
    /\ UNCHANGED << progVars, mainVars, debugVars, testVars, gpioVars, xferVars, callVars, calVars, diagVars, cfg, results,
                    analysis, timeoutReported, summary >>

PigpioNext ==
    \/ pigpio_main
    \/ pigpio_reading
    \/ pigpio_wait
    \/ pigpio_sck_high
    \/ pigpio_bit
    \/ pigpio_gain
    \/ pigpio_sleep

\* ----------------------------------------------------- scale.py main
TareTimes == 20
LoopTimes == 3

\* the window of n reads that main asks for, cut to MaxTimes reads
Window(n) == IF n < MaxTimes THEN n ELSE MaxTimes

\* main calls f, which enters read_raw
MainCall(f, n, w) ==
    /\ op' = f
    /\ times' = n
    /\ known_weight_grams' = w
    /\ k' = 0
    /\ values' = << >>
    /\ avg' = None
    /\ ret' = NoReturn
    /\ calls' = calls + 1
    /\ EnterReadRaw(1)

\* main after setup(): val = read_raw()
main_test_reading ==
    /\ prog = "scale"
    /\ stage = "main"
    /\ pc = "idle"
    /\ MainCall("read_raw", 0, 0)
    /\ stage' = "test"
    /\ UNCHANGED << progVars, debugVars, testVars, toolVars, gpioVars, calVars, diagVars >>

\* `if val is None:` cleanup and return; otherwise tare()
main_tare ==
    /\ prog = "scale"
    /\ stage = "test"
    /\ pc = "idle"
    /\ IF ret.value = None
       THEN /\ mode' = Cleanup(mode, level)[1]
            /\ level' = Cleanup(mode, level)[2]
            /\ pc' = "done"
            /\ stage' = "done"
            /\ UNCHANGED << DOUT_PIN, SCK_PIN, xferVars, callVars >>
       ELSE /\ MainCall("tare", Window(TareTimes), 0)
            /\ stage' = "tare"
            /\ UNCHANGED gpioVars
    /\ UNCHANGED << progVars, debugVars, testVars, toolVars, calVars, diagVars >>

\* the first get_weight_average(3) of the loop
EnterLoop ==
    /\ MainCall("get_weight_average", Window(LoopTimes), 0)
    /\ stage' = "loop"

\* the calibration dialogue: the answer, the weight typed (None: not a number,
\* float() raises ValueError and main goes on), calibrate(float(weight))
main_calibrate ==
    /\ prog = "scale"
    /\ stage = "tare"
    /\ pc = "idle"
    /\ \E response \in {"y", "n"}, weight \in {None} \cup {Some(w) : w \in KnownWeights} :
        IF response = "y" /\ weight # None
        THEN /\ MainCall("calibrate", Window(TareTimes), weight[1])
             /\ stage' = "calibrate"
        ELSE EnterLoop
    /\ UNCHANGED << progVars, debugVars, testVars, toolVars, gpioVars, calVars, diagVars >>

\* calibrate returned: the loop starts
main_loop_start ==
    /\ prog = "scale"
    /\ stage = "calibrate"
    /\ pc = "idle"
    /\ EnterLoop
    /\ UNCHANGED << progVars, debugVars, testVars, toolVars, gpioVars, calVars, diagVars >>

\* `while True:` the weight is printed, time.sleep(0.1), the next
\* get_weight_average(3); the run is cut after MaxCalls + 2 calls of main
main_loop ==
    /\ prog = "scale"
    /\ stage = "loop"
    /\ pc = "idle"
    /\ calls < MaxCalls + 2
    /\ MainCall("get_weight_average", Window(LoopTimes), 0)
    /\ UNCHANGED << progVars, mainVars, debugVars, testVars, toolVars, gpioVars, calVars, diagVars >>

\* an exception leaves the loop's try: `finally: GPIO.cleanup()`
main_finally ==
    /\ prog = "scale"
    /\ stage = "loop"
    /\ pc = "ZeroDivisionError"
    /\ mode' = Cleanup(mode, level)[1]
    /\ level' = Cleanup(mode, level)[2]
    /\ stage' = "done"
    /\ UNCHANGED << progVars, pc, debugVars, testVars, toolVars, DOUT_PIN, SCK_PIN, xferVars, callVars,
                    calVars, diagVars >>

MainNext ==
    \/ main_test_reading
    \/ main_tare
    \/ main_calibrate
    \/ main_loop_start
    \/ main_loop
    \/ main_finally

\* ------------------------------------------------------ debug_continuous.py
DebugTimeout == 1

\* the module's statements before the loop: the pins, SCK LOW, count = 0
debug_setup ==
    /\ prog = "debug"
    /\ pc = "start"
    /\ DOUT_PIN' = 5
    /\ SCK_PIN' = 6
    /\ \E latch \in {0, 1} :
        LET a == SetupIn(mode, level, DOUT_PIN')
            b == SetupOut(a[1], a[2], SCK_PIN', latch)
        IN /\ mode' = b[1]
           /\ level' = Output(b[2], SCK_PIN', 0)
    /\ count' = 0
    /\ pc' = "dbg_loop"
    /\ UNCHANGED << progVars, mainVars, reports, deadlines, testVars, toolVars, xferVars, callVars,
                    calVars, diagVars >>

\* the head of `while True:` timeout = time.time() + 1; the run is cut after
\* MaxCount lines
debug_loop ==
    /\ prog = "debug"
    /\ pc = "dbg_loop"
    /\ count < MaxCount
    /\ NewAttempt
    /\ deadlines' = deadlines + 1
    /\ pc' = "dbg_wait"
    /\ UNCHANGED << progVars, mainVars, count, reports, testVars, toolVars, gpioVars, callVars,
                    calVars, diagVars >>

\* one iteration of `while GPIO.input(DOUT) == 1:`; past the deadline the
\* TIMEOUT line, count += 1, time.sleep(0.5) and `continue`, which goes on
\* with this loop and its deadline
debug_wait ==
    /\ prog = "debug"
    /\ pc = "dbg_wait"
    /\ \E dout \in Polled :
        IF dout = 0
        THEN /\ StartBitLoop
             /\ pc' = "dbg_high"
             /\ UNCHANGED << count, reports >>
        ELSE IF elapsed > DebugTimeout
        THEN /\ count < MaxCount
             /\ reports' = Append(reports, "Timeout")
             /\ count' = count + 1
             /\ TimePasses(DebugTimeout)
             /\ pc' = pc
        ELSE /\ TimePasses(DebugTimeout)
             /\ pc' = pc
             /\ UNCHANGED << count, reports >>
    /\ UNCHANGED << progVars, mainVars, deadlines, testVars, toolVars, gpioVars, callVars, calVars,
                    diagVars >>

debug_sck_high ==
    /\ prog = "debug"
    /\ ClockHigh("dbg_high", "dbg_low")

debug_bit ==
    /\ prog = "debug"
    /\ ClockLowSample("dbg_low", "dbg_high")

\* the 25th pulse's LOW edge, the line printed, count += 1, time.sleep(0.2)
debug_gain ==
    /\ prog = "debug"
    /\ pc = "dbg_low"
    /\ GainPulseLow
    /\ val' = Some(Decode(raw_value))
    /\ reports' = Append(reports, Status(raw_value))
    /\ count' = count + 1
    /\ pc' = "dbg_loop"
    /\ UNCHANGED << progVars, mainVars, deadlines, testVars, toolVars, op, times, k, values, avg,
                    known_weight_grams, ret, calls, attempts, calVars, diagVars >>

DebugNext ==
    \/ debug_setup
    \/ debug_loop
    \/ debug_wait
    \/ debug_sck_high
    \/ debug_bit
    \/ debug_gain

\* a stop signal caught inside the loop, which goes on with its next round
KeyboardInterrupt_Resumes ==
    /\ \/ prog = "scale" /\ stage \in {"test", "tare", "calibrate", "loop"}
       \/ prog = "diagnose"
       \/ prog = "debug" /\ pc # "start"
    /\ pc \notin {"done", "stopped", "ZeroDivisionError"}
    /\ pc' = IF prog = "scale" /\ stage = "loop" THEN "idle"
             ELSE IF prog = "debug" THEN "dbg_loop"
             ELSE "stopped"
    /\ IF prog = "scale" /\ stage # "loop"
       THEN UNCHANGED << mode, level >>
       ELSE /\ mode' = Cleanup(mode, level)[1]
            /\ level' = Cleanup(mode, level)[2]
    /\ UNCHANGED << progVars, mainVars, debugVars, testVars, toolVars, DOUT_PIN, SCK_PIN, xferVars,
                    callVars, calVars, diagVars >>

\* ------------------------------------------------------- the stop signal
\* Ctrl+C raises KeyboardInterrupt at the statement that runs: the loop of
\* scale.py's main, the try of diagnose_hx711.py's main and the loop of
\* debug_continuous.py catch it and run GPIO.cleanup(); before its loop
\* scale.py's main does not catch it and the program ends as it is
KeyboardInterrupt ==
    /\ \/ prog = "scale" /\ stage \in {"test", "tare", "calibrate", "loop"}
       \/ prog = "diagnose"
       \/ prog = "debug" /\ pc # "start"
    /\ pc \notin {"done", "stopped", "ZeroDivisionError"}
    /\ pc' = "stopped"
    /\ IF prog = "scale" /\ stage # "loop"
       THEN UNCHANGED << mode, level >>
       ELSE /\ mode' = Cleanup(mode, level)[1]
            /\ level' = Cleanup(mode, level)[2]
    /\ UNCHANGED << progVars, mainVars, debugVars, testVars, toolVars, DOUT_PIN, SCK_PIN, xferVars,
                    callVars, calVars, diagVars >>

\* ------------------------------------------------------------ test_scale.py
FormatReadings == 5
StabilityReadings == 10

\* the four reading formats, in the order of the list `formats`
Formats == << << "MSB", "MSB" >>, << "MSB", "LSB" >>, << "LSB", "MSB" >>, << "LSB", "LSB" >> >>

\* what hx.getLong() returns in test_reading_formats
FormatValues == {-1, 3, 4}
\* what hx.rawBytesToLong(raw_bytes) returns in test_stability
StabilityValues == {None} \cup {Some(v) : v \in {-120, -100, 0, 39, 41, 100, 104, 511}}

Range(s) == {s[j] : j \in DOMAIN s}
\* max(readings), min(readings)
MaxOf(s) == CHOOSE x \in Range(s) : \A y \in Range(s) : y <= x
MinOf(s) == CHOOSE x \in Range(s) : \A y \in Range(s) : x <= y

\* a < b, for rationals with positive denominators
RLt(a, b) == a.n * b.d < b.n * a.d
\* abs(a)
RAbs(a) == [n |-> Abs(a.n), d |-> a.d]
\* the float literal 0.05
FivePercent == [n |-> 1, d |-> 20]

\* all((r & (r + 1)) == 0 or r == 0 for r in readings if r > 0)
AllPositivesSuspicious(rs) ==
    \A j \in DOMAIN rs : rs[j] > 0 => (BitAnd(rs[j], rs[j] + 1) = 0 \/ rs[j] = 0)

\* a comparison that also takes a spread equal to the best one
BelowOrEqualBest(variance, best) == best = None \/ variance <= best[1]

\* `variance < best_variance`, best_variance = float('inf') being None
BelowBest(variance, best) == best = None \/ variance < best[1]

\* sum(1 for r in readings if r > 0 and (r & (r + 1)) == 0)
SuspiciousCount(rs) == Cardinality({j \in DOMAIN rs : Suspicious(rs[j])})

\* a judgment that leaves abs() out
JudgmentSigned(rs) ==
    LET a == Mean(rs)
        variance == MaxOf(rs) - MinOf(rs)
    IN IF SuspiciousCount(rs) > Len(rs) \div 2 THEN "warning"
       ELSE IF ~IsZero(a) /\ RLt(RDiv(Rat(variance), a), FivePercent) THEN "stable"
       ELSE "variance"

\* the line test_stability prints about its window
Judgment(rs) ==
    LET a == Mean(rs)
        variance == MaxOf(rs) - MinOf(rs)
    IN IF SuspiciousCount(rs) > Len(rs) \div 2 THEN "warning"
       ELSE IF ~IsZero(a) /\ RLt(RAbs(RDiv(Rat(variance), a)), FivePercent) THEN "stable"
       ELSE "variance"

\* main: initialize() sets MSB/MSB; with --quick test_connection() and then
\* test_stability(); without it run_full_test, which returns when
\* test_connection() fails and goes on to test_reading_formats() otherwise
test_scale_main ==
    /\ prog = "test_scale"
    /\ pc = "start"
    /\ format' = Formats[1]
    /\ \E quick \in BOOLEAN, connected \in BOOLEAN :
        pc' = IF quick THEN "ts_stability"
              ELSE IF connected THEN "tf_format"
              ELSE "done"
    /\ UNCHANGED << progVars, mainVars, debugVars, readings, judgment, fmt, best_format,
                    best_variance, spreads, flags, toolVars, gpioVars, xferVars, callVars,
                    calVars, diagVars >>

\* the head of `for byte_fmt, bit_fmt in formats:` setReadingFormat and
\* readings = []
test_reading_formats_round ==
    /\ prog = "test_scale"
    /\ pc = "tf_format"
    /\ fmt <= Len(Formats)
    /\ format' = Formats[fmt]
    /\ readings' = << >>
    /\ pc' = "tf_read"
    /\ UNCHANGED << progVars, mainVars, debugVars, judgment, fmt, best_format, best_variance,
                    spreads, flags, toolVars, gpioVars, xferVars, callVars, calVars, diagVars >>

\* one round of `for _ in range(5):` val = self.hx.getLong()
test_reading_formats_read ==
    /\ prog = "test_scale"
    /\ pc = "tf_read"
    /\ Len(readings) < FormatReadings
    /\ \E v \in FormatValues : readings' = Append(readings, v)
    /\ pc' = pc
    /\ UNCHANGED << progVars, mainVars, debugVars, judgment, fmt, best_format, best_variance,
                    spreads, flags, format, toolVars, gpioVars, xferVars, callVars, calVars,
                    diagVars >>

\* the rest of the round: variance, suspicious, the best format so far
test_reading_formats ==
    /\ prog = "test_scale"
    /\ pc = "tf_read"
    /\ Len(readings) = FormatReadings
    /\ LET variance == MaxOf(readings) - MinOf(readings)
           suspicious == AllPositivesSuspicious(readings)
       IN /\ spreads' = Append(spreads, variance)
          /\ flags' = Append(flags, suspicious)
          /\ IF ~suspicious /\ BelowBest(variance, best_variance)
             THEN /\ best_variance' = Some(variance)
                  /\ best_format' = Some(Formats[fmt])
             ELSE UNCHANGED << best_variance, best_format >>
    /\ fmt' = fmt + 1
    /\ pc' = "tf_format"
    /\ UNCHANGED << progVars, mainVars, debugVars, readings, judgment, format, toolVars, gpioVars,
                    xferVars, callVars, calVars, diagVars >>

\* after the loop: `if best_format:` setReadingFormat(best), else MSB/MSB
test_reading_formats_return ==
    /\ prog = "test_scale"
    /\ pc = "tf_format"
    /\ fmt > Len(Formats)
    /\ format' = IF best_format # None THEN best_format[1] ELSE Formats[1]
    /\ pc' = "tf_done"
    /\ UNCHANGED << progVars, mainVars, debugVars, readings, judgment, fmt, best_format,
                    best_variance, spreads, flags, toolVars, gpioVars, xferVars, callVars,
                    calVars, diagVars >>

\* test_stability() is called: readings = []; the locals of
\* test_reading_formats are gone
test_stability ==
    /\ prog = "test_scale"
    /\ pc \in {"ts_stability", "tf_done"}
    /\ readings' = << >>
    /\ fmt' = 1
    /\ best_format' = None
    /\ best_variance' = None
    /\ spreads' = << >>
    /\ flags' = << >>
    /\ pc' = "ts_read"
    /\ UNCHANGED << progVars, mainVars, debugVars, judgment, format, toolVars, gpioVars,
                    xferVars, callVars, calVars, diagVars >>

\* one round of `for i in range(num_readings):` readings.append(value if
\* value else 0)
test_stability_read ==
    /\ prog = "test_scale"
    /\ pc = "ts_read"
    /\ Len(readings) < Window(StabilityReadings)
    /\ \E v \in StabilityValues :
        readings' = Append(readings, IF v # None /\ v[1] # 0 THEN v[1] ELSE 0)
    /\ pc' = pc
    /\ UNCHANGED << progVars, mainVars, debugVars, judgment, fmt, best_format, best_variance,
                    spreads, flags, format, toolVars, gpioVars, xferVars, callVars, calVars,
                    diagVars >>

\* after the loop: the statistics, the judgment printed and `return avg`
test_stability_return ==
    /\ prog = "test_scale"
    /\ pc = "ts_read"
    /\ Len(readings) = Window(StabilityReadings)
    /\ judgment' = Judgment(readings)
    /\ ret' = [op |-> "test_stability", value |-> Some(Mean(readings))]
    /\ pc' = "done"
    /\ UNCHANGED << progVars, mainVars, debugVars, readings, fmt, best_format, best_variance,
                    spreads, flags, format, toolVars, gpioVars, xferVars, op, times, k, values,
                    val, avg, known_weight_grams, calls, attempts, calVars, diagVars >>

TestScaleNext ==
    \/ test_scale_main
    \/ test_reading_formats_round
    \/ test_reading_formats_read
    \/ test_reading_formats
    \/ test_reading_formats_return
    \/ test_stability
    \/ test_stability_read
    \/ test_stability_return

Next ==
    \/ ScaleNext
    \/ DiagNext
    \/ RawGpioNext
    \/ PigpioNext
    \/ MainNext
    \/ DebugNext
    \/ TestScaleNext
    \/ KeyboardInterrupt

Spec == Init /\ [][Next]_vars

\* ================================================================ properties
\* the 25th pulse selects gain 128 (channel A) in every script
GAIN == 128

\* pulses after the data bits, per gain setting
ExtraPulses(g) == CASE g = 128 -> 1 [] g = 64 -> 2 [] g = 32 -> 3

\* where the program polls or reads the data line before an exchange
PollPcs == {"wait_ready", "ready_wait", "check_sck_toggle", "rrv_wait", "swap_wait",
            "pg_wait", "tp_wait", "tp_step2"}
\* inside the bit loop of an exchange
ShiftPcs == {"sck_high", "sck_low", "rrv_high", "rrv_low", "swap_high", "swap_low",
             "pg_high", "pg_low", "tp_high", "tp_low"}
\* an exchange attempt has just returned
ReturnPcs == {"read_raw_ret", "main_after_read", "verdict", "pg_sleep", "next_config"}
\* inside an exchange attempt, from its first poll to its return
AttemptPcs == (PollPcs \ {"check_sck_toggle"}) \cup ShiftPcs \cup ReturnPcs

\* the attempt that has just returned clocked out a whole sample
Completed == pc \in ReturnPcs /\ i = DataBits

\* what the attempt that has just returned gave its caller
Returned ==
    CASE pc = "read_raw_ret" -> val
      [] pc = "pg_sleep" -> val
      [] pc = "main_after_read" -> value
      [] pc = "verdict" -> swapped
      [] pc = "next_config" -> results[Len(results)]

RECURSIVE MsbFirst(_)
\* sum of b_i * 2^(n-1-i) over the n sampled levels
MsbFirst(bs) == IF bs = << >> THEN 0 ELSE bs[1] * 2 ^ (Len(bs) - 1) + MsbFirst(Tail(bs))

\* C1: an exchange attempt in which every poll of the data line read HIGH
\* emits no clock pulse, samples no bit, and returns no value, after the
\* deadline has passed.
C1_TimeoutEmitsNothing ==
    (pc \in AttemptPcs /\ ~sawLow) =>
        /\ pulses = 0
        /\ bits = << >>
        /\ pc \notin ShiftPcs
        /\ pc \in ReturnPcs => Returned = None
        /\ pc = "read_raw_ret" => elapsed > WaitReadyTimeout
        /\ pc \in {"main_after_read", "verdict"} => elapsed > DiagTimeout
        /\ pc = "pg_sleep" => elapsed > PigpioTimeout

C1_Witness ==
    /\ pc = "read_raw_ret"
    /\ ~sawLow
    /\ val = None
    /\ elapsed > WaitReadyTimeout
    /\ pulses = 0

\* C2 as stated: the clock is LOW wherever the data line is polled, when
\* setup (scale.py setup, diagnose_hx711.py setup_gpio, test_pigpio.py's pin
\* setup) has returned, when an exchange has returned, and on the new clock
\* pin after the swap.
C2_ClockLowAsStated ==
    /\ pc \in PollPcs => sck = 0
    /\ (prog = "scale" /\ pc = "idle") => sck = 0
    /\ (prog = "diagnose" /\ pc = "check_dout_state") => sck = 0
    /\ (prog = "pigpio" /\ pc = "pg_reading") => sck = 0
    /\ pc \in ReturnPcs => sck = 0
    /\ pc = "swap_wait" => (SCK_PIN = 5 /\ mode[SCK_PIN] = "out" /\ sck = 0)

\* C2, amended: as stated, except that setup_gpio of diagnose_hx711.py
\* returns with the clock at whatever level its latch holds; the clock is LOW
\* from check_dout_state's write on, before the first read of the data line.
C2_ClockLowWhenPolled ==
    /\ pc \in PollPcs => sck = 0
    /\ (prog = "scale" /\ pc = "idle") => sck = 0
    /\ (prog = "diagnose" /\ pc = "check_ready_signal") => sck = 0
    /\ (prog = "pigpio" /\ pc = "pg_reading") => sck = 0
    /\ pc \in ReturnPcs => sck = 0
    /\ pc = "swap_wait" => (SCK_PIN = 5 /\ mode[SCK_PIN] = "out" /\ sck = 0)

C2_Witness ==
    /\ prog = "diagnose"
    /\ pc = "swap_wait"
    /\ SCK_PIN = 5
    /\ DOUT_PIN = 6
    /\ sck = 0

C4_MsbFirstMagnitude ==
    /\ pc \in ShiftPcs => (Len(bits) = i /\ pulses = i /\ raw_value = MsbFirst(bits))
    /\ Completed =>
        /\ Len(bits) = DataBits
        /\ pulses = DataBits + 1
        /\ raw_value = MsbFirst(bits)

C4_Witness ==
    /\ pc = "read_raw_ret"
    /\ i = DataBits
    /\ raw_value = 1193131
    /\ Len(bits) = 24
    /\ bits[1] = 0 /\ bits[4] = 1 /\ bits[24] = 1

\* C5: the value a completed exchange returns is m - 0x1000000 when bit 23 of
\* the magnitude m is set and m otherwise; 0 -> 0, 0xFFFFFF -> -1,
\* 0x800000 -> -8388608, 0x7FFFFF -> 8388607; it lies in
\* -8388608 .. 8388607.
C5_TwosComplement ==
    (Completed /\ pc \in {"read_raw_ret", "pg_sleep"}) =>
        /\ val # None
        /\ val[1] = IF raw_value >= 8388608 THEN raw_value - 16777216 ELSE raw_value
        /\ val[1] \in -8388608 .. 8388607
        /\ raw_value = 0 => val[1] = 0
        /\ raw_value = 16777215 => val[1] = -1
        /\ raw_value = 8388608 => val[1] = -8388608
        /\ raw_value = 8388607 => val[1] = 8388607

C5_Witness ==
    /\ pc = "read_raw_ret"
    /\ raw_value = 8388608
    /\ val = Some(-8388608)

\* s mod 2^24, the 24-bit two's complement encoding of s
Encode(x) == x % TwoTo24

\* C6: decoding inverts the 24-bit two's complement encoding: for the
\* magnitude m and the value s of a completed read, s is in
\* -8388608 .. 8388607, encode(s) = m and decode(encode(s)) = s.
C6_DecodeInvertsEncode ==
    (Completed /\ pc \in {"read_raw_ret", "pg_sleep"}) =>
        /\ val # None
        /\ val[1] \in -8388608 .. 8388607
        /\ Encode(val[1]) = raw_value
        /\ Decode(Encode(val[1])) = val[1]
        /\ Encode(Decode(raw_value)) = raw_value

C6_Witness ==
    /\ pc = "read_raw_ret"
    /\ raw_value = AllOnesWord
    /\ val = Some(-1)
    /\ Encode(-1) = AllOnesWord

\* the five-way classification, by first match
FiveWay(m) ==
    IF m = 16777215 THEN "AllOnes"
    ELSE IF m = 0 THEN "AllZeros"
    ELSE IF (m \div 256) % 256 = 255 THEN "SaturatedMiddleByte"
    ELSE IF m > 0 /\ BitAnd(m, m + 1) = 0 THEN "SuspiciousPowerOfTwoPattern"
    ELSE "Nominal"

\* the magnitude test_pins has just analysed
Analysed == prog = "raw_gpio" /\ pc = "next_config" /\ i = DataBits

Signed(m) == IF m >= 8388608 THEN m - 16777216 ELSE m

\* C8 as stated: a completed exchange returns the decoded sample to its
\* caller whatever the pattern; never "no value".
C8_AdvisoryAsStated ==
    (Completed /\ pc # "next_config") =>
        /\ Returned # None
        /\ Returned = Some(Signed(raw_value))

\* C8, amended: a completed exchange of read_raw (scale.py) and of
\* test_pigpio.py returns the decoded sample whatever the pattern, and
\* test_pins returns the magnitude; read_raw_value and try_swapped_pins of
\* diagnose_hx711.py return no value for 0xFFFFFF and for 0x000000 and the
\* decoded sample for everything else, a saturated middle byte included.
C8_AdvisoryExceptDiagnose ==
    /\ (Completed /\ pc \in {"read_raw_ret", "pg_sleep"}) =>
            Returned = Some(Signed(raw_value))
    /\ (Completed /\ pc = "next_config") => Returned = Some(raw_value)
    /\ (Completed /\ pc \in {"main_after_read", "verdict"}) =>
            Returned = IF raw_value \in {0, 16777215} THEN None
                       ELSE Some(Signed(raw_value))

C8_Witness ==
    /\ pc = "main_after_read"
    /\ i = DataBits
    /\ pulses = 25
    /\ raw_value = 16777215
    /\ value = None

\* the step in which tare, its read_average done, returns
TareReturns == prog = "scale" /\ pc = "read_average_ret" /\ op = "tare" /\ pc' \notin {pc, "stopped"}

\* C9: tare sets OFFSET to the arithmetic mean of the samples that did not
\* time out and returns True ([100, 102, 98, 100] gives 100); with no such
\* sample it returns False and leaves OFFSET as it was.
C9_TareMean ==
    [][TareReturns =>
        /\ Len(values) <= times
        /\ values # << >> =>
            /\ OFFSET'.d > 0
            /\ OFFSET'.n * Len(values) = SumSeq(values) * OFFSET'.d
            /\ ret' = [op |-> "tare", value |-> TRUE]
        /\ values = << >> =>
            /\ OFFSET' = OFFSET
            /\ ret' = [op |-> "tare", value |-> FALSE]
        /\ SCALE' = SCALE
        /\ Mean(<< 100, 102, 98, 100 >>) = [n |-> 100, d |-> 1]]_vars

C9_Witness ==
    /\ pc = "idle"
    /\ ret = [op |-> "tare", value |-> TRUE]
    /\ values = << 98, 102 >>
    /\ OFFSET = [n |-> 100, d |-> 1]

\* the step in which calibrate, its read_average done, ends
CalibrateEnds == prog = "scale" /\ pc = "read_average_ret" /\ op = "calibrate" /\ pc' \notin {pc, "stopped"}

\* C10 as stated: calibrate with known_weight_grams = 0 ends with a failure
\* result, not with a division error, and leaves OFFSET and SCALE unchanged.
C10_ZeroWeightFails ==
    [][(CalibrateEnds /\ known_weight_grams = 0) =>
        /\ pc' = "idle"
        /\ ret' = [op |-> "calibrate", value |-> FALSE]
        /\ OFFSET' = OFFSET
        /\ SCALE' = SCALE]_vars

\* calibrate has ended in the division error with a zero weight and a sample
C10_Witness ==
    /\ pc = "ZeroDivisionError"
    /\ op = "calibrate"
    /\ known_weight_grams = 0
    /\ avg # None

\* C11 as stated: SCALE is never 0, and no weight conversion divides by a
\* zero SCALE.
C11_ScaleNonZero ==
    /\ SCALE.n # 0
    /\ ~(pc = "ZeroDivisionError" /\ op \in {"get_weight", "get_weight_average"})

\* calibrate has returned True and stored a zero SCALE
C11_Witness ==
    /\ pc = "idle"
    /\ ret = [op |-> "calibrate", value |-> TRUE]
    /\ avg = Some(OFFSET)
    /\ SCALE.n = 0

\* equality and product of two quotients, by cross-multiplication
REq(a, b) == a.n * b.d = b.n * a.d
RMul(a, b) == [n |-> a.n * b.n, d |-> a.d * b.d]
RMinus(a, b) == [n |-> a.n * b.d - b.n * a.d, d |-> a.d * b.d]

\* calibrate returns True
CalibrateSucceeds == CalibrateEnds /\ pc' = "idle" /\ ret' = [op |-> "calibrate", value |-> TRUE]
\* tare returns True
TareSucceeds == TareReturns /\ ret' = [op |-> "tare", value |-> TRUE]
\* get_weight returns a weight
GetWeightConverts ==
    prog = "scale" /\ pc = "read_raw_ret" /\ op = "get_weight" /\ val # None /\ pc' = "idle"
\* get_weight_average returns a weight
GetWeightAverageConverts ==
    /\ prog = "scale"
    /\ pc = "read_average_ret"
    /\ op = "get_weight_average"
    /\ avg # None
    /\ pc' = "idle"
\* the weight returned is (r - OFFSET) / SCALE
ConvertedFrom(r) ==
    /\ ret'.value # None
    /\ ret'.value[1].d > 0
    /\ REq(RMul(ret'.value[1], SCALE), RMinus(r, OFFSET))

\* C12: a calibrate that succeeds with known weight W # 0 and mean M, the
\* offset being the T that tare stored and M # T, stores SCALE = (M - T) / W,
\* so that M converts to W and T to 0; a conversion of R returns
\* (R - OFFSET) / SCALE (T = 100, M = 600, W = 500 give SCALE 1, and R = 350
\* gives 250).
C12_CalibrationAlgebra ==
    [][/\ (CalibrateSucceeds /\ known_weight_grams # 0 /\ avg[1] # OFFSET) =>
            /\ OFFSET' = OFFSET
            /\ SCALE'.d > 0 /\ SCALE'.n # 0
            /\ REq(RMul(SCALE', [n |-> known_weight_grams, d |-> 1]), RMinus(avg[1], OFFSET))
            /\ REq(RMinus(avg[1], OFFSET'), RMul([n |-> known_weight_grams, d |-> 1], SCALE'))
            /\ REq(RMinus(OFFSET, OFFSET'), RMul([n |-> 0, d |-> 1], SCALE'))
       /\ GetWeightConverts => ConvertedFrom([n |-> val[1], d |-> 1])
       /\ GetWeightAverageConverts => ConvertedFrom(avg[1])
       /\ RDiv(RSub(Rat(600), Rat(100)), Rat(500)) = [n |-> 1, d |-> 1]
       /\ RDiv(RSub(Rat(350), Rat(100)), [n |-> 1, d |-> 1]) = [n |-> 250, d |-> 1]]_vars

\* tare stored 100, calibrate with 2 g read 102 and stored 1, and 98 converts
\* to -2
C12_Witness ==
    /\ pc = "idle"
    /\ ret = [op |-> "get_weight_average", value |-> Some([n |-> -2, d |-> 1])]
    /\ OFFSET = [n |-> 100, d |-> 1]
    /\ SCALE = [n |-> 1, d |-> 1]
    /\ avg = Some([n |-> 98, d |-> 1])

\* the calibration state the module starts with
PassThrough == OFFSET = [n |-> 0, d |-> 1] /\ SCALE = [n |-> 1, d |-> 1]

\* C13: with OFFSET 0 and SCALE 1, get_weight returns the signed sample
\* read_raw returned and get_weight_average the mean of the samples
\* read_average kept, and each returns None exactly when its read did.
C13_IdentityMapping ==
    (prog = "scale" /\ pc = "idle" /\ PassThrough) =>
        /\ ret.op = "get_weight" =>
            /\ (ret.value = None) <=> (val = None)
            /\ val # None => ret.value = << [n |-> val[1], d |-> 1] >>
        /\ ret.op = "get_weight_average" =>
            /\ (ret.value = None) <=> (values = << >>)
            /\ values # << >> =>
                /\ ret.value[1].d > 0
                /\ ret.value[1].n * Len(values) = SumSeq(values) * ret.value[1].d

C13_Witness ==
    /\ pc = "idle"
    /\ PassThrough
    /\ ret = [op |-> "get_weight", value |-> << [n |-> -1, d |-> 1] >>]
    /\ val = << -1 >>

\* a read operation returns to the caller
ReadReturns ==
    /\ prog = "scale"
    /\ pc \in {"read_raw_ret", "read_average_ret"}
    /\ op \in {"read_raw", "read_average", "get_weight", "get_weight_average"}
    /\ pc' \notin {pc, "stopped"}

\* C14: OFFSET = 0 and SCALE = 1 at the start; OFFSET changes only when tare
\* returns True and SCALE only when calibrate returns True; tare leaves SCALE
\* and calibrate leaves OFFSET; a tare or calibrate that fails, and every
\* read, leaves both.
C14_Frame ==
    /\ PassThrough
    /\ [][/\ OFFSET' # OFFSET => TareSucceeds
          /\ SCALE' # SCALE => CalibrateSucceeds
          /\ TareReturns => SCALE' = SCALE
          /\ CalibrateEnds => OFFSET' = OFFSET
          /\ (TareReturns /\ ~TareSucceeds) => (OFFSET' = OFFSET /\ SCALE' = SCALE)
          /\ (CalibrateEnds /\ ~CalibrateSucceeds) => (OFFSET' = OFFSET /\ SCALE' = SCALE)
          /\ ReadReturns => (OFFSET' = OFFSET /\ SCALE' = SCALE)]_vars

\* a tare has failed after an earlier one stored 100
C14_Witness ==
    /\ pc = "idle"
    /\ ret = [op |-> "tare", value |-> FALSE]
    /\ values = << >>
    /\ OFFSET = [n |-> 100, d |-> 1]

\* C15: read_average(n) makes exactly n read_raw attempts, keeps the samples
\* that did not time out, returns their sum / count when there is one
\* ([10, 12, 11] give 11) and None exactly when there is none, n = 0
\* included.
C15_ReadAverage ==
    /\ (prog = "scale" /\ pc = "read_average_ret") =>
        /\ attempts = times
        /\ k = times
        /\ Len(values) <= times
        /\ (avg = None) <=> (values = << >>)
        /\ values # << >> =>
            /\ avg[1].d > 0
            /\ avg[1].n * Len(values) = SumSeq(values) * avg[1].d
    /\ (prog = "scale" /\ pc = "read_raw_ret" /\ op \in Averaging) =>
        /\ attempts = k + 1
        /\ attempts <= times
        /\ Len(values) <= k
        /\ val = None => ~sawLow
    /\ Mean(<< 10, 12, 11 >>) = [n |-> 11, d |-> 1]

\* two attempts, one timed out, and the mean is the other sample
C15_Witness ==
    /\ pc = "read_average_ret"
    /\ op = "read_average"
    /\ times = 2
    /\ attempts = 2
    /\ values = << 102 >>
    /\ avg = << [n |-> 102, d |-> 1] >>

\* a magnitude that is not all ones, not all zeros, and whose middle byte is
\* not 0xFF
NominalMagnitude(m) == m # 16777215 /\ m # 0 /\ (m \div 256) % 256 # 255

\* test_raw_gpio.py is inside test_pins
InTestPins == prog = "raw_gpio" /\ pc \in {"tp_wait", "tp_step2", "tp_high", "tp_low"}

\* the order of probing: default, swapped, alternate pair, alternate swapped
ProbeOrder == << << 5, 6 >>, << 6, 5 >>, << 17, 27 >>, << 27, 17 >> >>

\* the configurations are probed in the order of ProbeOrder, and
\* diagnose_hx711.py probes the default pins first and the swapped ones only
\* after a read that returned no value and a failed toggle check
ProbedInOrder ==
    /\ InTestPins => << DOUT_PIN, SCK_PIN >> = ProbeOrder[Len(results) + 1]
    /\ (prog = "raw_gpio" /\ pc = "next_config") =>
            << DOUT_PIN, SCK_PIN >> = ProbeOrder[Len(results)]
    /\ prog = "diagnose" =>
        /\ << DOUT_PIN, SCK_PIN >> \in {<< 5, 6 >>, << 6, 5 >>}
        /\ << DOUT_PIN, SCK_PIN >> = << 6, 5 >> => (value = None /\ ~comm_ok)
        /\ pc \in {"swap_wait", "swap_high", "swap_low", "verdict"} =>
                << DOUT_PIN, SCK_PIN >> = << 6, 5 >>

\* C16 as stated: the configurations are probed in the order default,
\* swapped, alternate pairs, and once a configuration has given a Nominal
\* reading no later configuration is exercised.
C16_StopsAtFirstNominal ==
    /\ ProbedInOrder
    /\ prog = "raw_gpio" =>
        \A j \in 1 .. Len(results) :
            (results[j] # None /\ NominalMagnitude(results[j][1])) =>
                (Len(results) = j /\ ~InTestPins)

\* C16, amended: the configurations are probed in the order default,
\* swapped, alternate pairs; test_raw_gpio.py probes every one of its four
\* configurations whatever the earlier ones gave, and diagnose_hx711.py
\* probes the swapped pins only when the default pins gave no value and the
\* toggle check failed.
C16_ProbesInOrder ==
    /\ ProbedInOrder
    /\ prog = "raw_gpio" =>
        /\ cfg = Len(results) + 1
        /\ pc = "next_config" => Len(results) \in 1 .. 4
        /\ pc = "done" => (Len(results) = 4 /\ Len(summary) = 4)
        /\ pc # "done" => Len(results) < 4 \/ pc = "next_config"

\* the swapped pins are under test after the default ones read 0x1234AB
C16_Witness ==
    /\ InTestPins
    /\ results = << << 1193131 >> >>
    /\ DOUT_PIN = 6
    /\ SCK_PIN = 5
    /\ pulses > 0

\* C17 as stated: if the default or the swapped configuration gave a
\* completed read that is neither all ones nor all zeros, the verdict is
\* "working".
C17_AnyWorksAsStated ==
    (prog = "diagnose" /\ pc = "done" /\ (value # None \/ swapped # None)) =>
        verdict = "working"

\* C17, amended: the verdict is "working" exactly when read_raw_value on the
\* default pins returned a value; what try_swapped_pins returned is not
\* looked at, so after a swapped probe the verdict is "troubleshooting"
\* whether or not the swapped read gave a value.
C17_VerdictFromDefaultPins ==
    (prog = "diagnose" /\ pc = "done") =>
        /\ verdict \in {"working", "troubleshooting"}
        /\ (verdict = "working") <=> (value # None)
        /\ << DOUT_PIN, SCK_PIN >> = << 6, 5 >> => verdict = "troubleshooting"

\* the swapped read gave a value and the verdict is "troubleshooting"
C17_Witness ==
    /\ prog = "diagnose"
    /\ pc = "done"
    /\ swapped # None
    /\ value = None
    /\ verdict = "troubleshooting"

\* C18 as stated: a configuration is reported as working only if an
\* exchange on it completed and its magnitude is Nominal; a timeout, all
\* ones, all zeros and a saturated middle byte are never reported as
\* success.
C18_NoFailureMasked ==
    /\ (prog = "raw_gpio" /\ pc = "done") =>
        \A j \in 1 .. Len(summary) :
            summary[j] = "OK" =>
                (results[j] # None /\ NominalMagnitude(results[j][1]))
    /\ (prog = "diagnose" /\ pc = "done" /\ verdict = "working") =>
        (value # None /\ NominalMagnitude(value[1] % 16777216))

\* the summary marks the default pins as good for the magnitude 0x00FF00,
\* which test_pins had flagged
C18_Witness ==
    /\ prog = "raw_gpio"
    /\ pc = "done"
    /\ results[1] = << 65280 >>
    /\ summary[1] = "OK"

\* the phase of a diagnostic exchange
Phase ==
    IF pc \in {"ready_wait", "rrv_wait", "swap_wait", "tp_wait", "tp_step2"}
    THEN "AwaitingReady"
    ELSE IF pc \in {"rrv_high", "rrv_low", "swap_high", "swap_low", "tp_high", "tp_low"}
    THEN IF i < DataBits THEN "Shifting" ELSE "EmittingGainPulses"
    ELSE IF pc \in {"main_after_read", "verdict", "next_config"}
    THEN IF i = DataBits THEN "Decoded" ELSE "Failed"
    ELSE IF pc \in {"check_sck_toggle", "toggle_high", "toggle_low"}
    THEN "Toggling"
    ELSE IF pc = "stopped"
    THEN "Interrupted"
    ELSE "Idle"

PhaseEdges ==
    {<< "Idle", "Idle" >>, << "Idle", "AwaitingReady" >>,
     << "AwaitingReady", "AwaitingReady" >>, << "AwaitingReady", "Shifting" >>,
     << "AwaitingReady", "Failed" >>, << "AwaitingReady", "Toggling" >>,
     << "Toggling", "Toggling" >>, << "Toggling", "Idle" >>,
     << "Shifting", "Shifting" >>, << "Shifting", "EmittingGainPulses" >>,
     << "EmittingGainPulses", "EmittingGainPulses" >>, << "EmittingGainPulses", "Decoded" >>,
     << "Decoded", "AwaitingReady" >>, << "Decoded", "Idle" >>,
     << "Failed", "AwaitingReady" >>, << "Failed", "Idle" >>}
    \cup {<< p, "Interrupted" >> : p \in {"Idle", "AwaitingReady", "Toggling", "Shifting",
                                           "EmittingGainPulses", "Decoded", "Failed"}}

\* the readiness wait of the configuration under test has timed out
TimeoutReported ==
    \/ prog = "raw_gpio" /\ timeoutReported
    \/ /\ prog = "diagnose"
       /\ pc \in {"check_sck_toggle", "toggle_high", "toggle_low", "read_raw_value"}
       /\ ~sawLow
       /\ elapsed > ReadySignalTimeout

\* C19 as stated: once the readiness wait of a configuration has timed out,
\* no clock pulse is emitted and no bit is shifted for that configuration.
C19_TimeoutTerminal ==
    TimeoutReported => (pulses = 0 /\ bits = << >>)

\* one step of a diagnostic script, seen as a step of its exchange
ExchangeStep ==
    prog \in {"diagnose", "raw_gpio"} =>
        /\ << Phase, Phase' >> \in PhaseEdges
        /\ (Phase = "AwaitingReady" /\ Phase' = "Shifting") =>
                (sawLow' /\ i' = 0 /\ raw_value' = 0 /\ pulses' = 0)
        /\ (Phase = "AwaitingReady" /\ Phase' = "Failed") => (pulses' = 0 /\ bits' = << >>)
        /\ (Phase = "Shifting" /\ Phase' = "EmittingGainPulses") =>
                (Len(bits') = DataBits /\ pulses' = DataBits)
        /\ (Phase = "EmittingGainPulses" /\ Phase' = "Decoded") =>
                (Len(bits') = DataBits /\ pulses' = DataBits + 1)
        /\ pulses' > pulses => Phase \in {"Shifting", "EmittingGainPulses", "Toggling"}
        /\ Len(bits') > Len(bits) => Phase \in {"Shifting", "Toggling"}

\* C19, amended: an exchange of Diagnostics goes Idle -> AwaitingReady ->
\* Shifting (24 bits) -> EmittingGainPulses -> Decoded, or AwaitingReady ->
\* Failed with no pulse and no bit, and Shifting is entered only on a poll
\* that read LOW; pulses are emitted only while Shifting, EmittingGainPulses
\* or in check_sck_toggle.  A reported timeout does not end the
\* configuration: check_sck_toggle runs its 25 pulses after
\* check_ready_signal timed out, and test_pins polls once more after its
\* TIMEOUT line.  The stop signal ends an exchange in whatever phase it is.
C19_ExchangePhases == [][ExchangeStep]_vars

\* check_sck_toggle has run its 25 pulses after check_ready_signal timed out
C19_Witness ==
    /\ prog = "diagnose"
    /\ pc = "read_raw_value"
    /\ ~sawLow
    /\ elapsed > ReadySignalTimeout
    /\ pulses = 25
    /\ Len(bits) = 25

\* C20 as stated: in every configuration that is set up the data pin and the
\* clock pin differ.
C20_PinsDistinct ==
    pc # "start" => DOUT_PIN # SCK_PIN

\* test_pigpio.py run with --dout 5 --sck 5 reads 24 bits off its own clock pin
C20_Witness ==
    /\ prog = "pigpio"
    /\ DOUT_PIN = 5
    /\ SCK_PIN = 5
    /\ mode[5] = "out"
    /\ pc = "pg_sleep"
    /\ i = DataBits
    /\ val = << 0 >>

\* the loop of scale.py's main has ended on an exception of its own
LoopRaised ==
    /\ prog = "scale"
    /\ stage \in {"loop", "done"}
    /\ op = "get_weight_average"
    /\ pc = "ZeroDivisionError"

\* C21 as stated: the continuous loop of scale.py's main ends only on the
\* stop signal; whatever the reads give and whatever tare and calibrate left
\* in OFFSET and SCALE, it never ends on a condition of its own.
C21_LoopEndsOnlyOnStop ==
    ~LoopRaised

\* calibrate measured the mean that tare had measured, SCALE is 0, and the
\* loop's first get_weight_average with a valid mean raised ZeroDivisionError;
\* the finally clause has run
C21_Witness ==
    /\ LoopRaised
    /\ stage = "done"
    /\ IsZero(SCALE)
    /\ avg # None
    /\ ret.op = "none"

\* test_stability has printed its judgment about the window
Judged == prog = "test_scale" /\ pc = "done" /\ judgment # "none"

\* max - min of the window
Spread == MaxOf(readings) - MinOf(readings)

\* r is 2^n - 1 for some n >= 1
PowerOfTwoMinusOne(r) == \E n \in 1 .. 24 : r = 2 ^ n - 1

\* the readings of the window that are 2^n - 1
PatternCount == Cardinality({j \in DOMAIN readings : PowerOfTwoMinusOne(readings[j])})

\* C22 as stated: a window with mean # 0 is judged stable exactly when
\* (max - min) / mean < 0.05, whatever else is true of the readings, and a
\* window with mean 0 is not judged stable.
C22_StableAsStated ==
    Judged =>
        IF IsZero(Mean(readings))
        THEN judgment # "stable"
        ELSE (judgment = "stable") <=> RLt(RDiv(Rat(Spread), Mean(readings)), FivePercent)

\* C22, amended: a window is judged stable exactly when at most half of its
\* readings (len // 2) are of the form 2^n - 1, its mean is not 0 and
\* (max - min) / |mean| < 0.05; a window with more 2^n - 1 readings than
\* that gets the wiring warning whatever its spread, and a reading the
\* library gave as None counts as 0.
C22_StableJudgment ==
    Judged =>
        /\ (judgment = "stable") <=>
                /\ 2 * PatternCount <= Len(readings)
                /\ SumSeq(readings) # 0
                /\ 20 * Spread * Len(readings) < Abs(SumSeq(readings))
        /\ (judgment = "warning") <=> (PatternCount > Len(readings) \div 2)

\* a window of 511s only: no spread, mean 511, and the warning in place of
\* the stable line
C22_Witness ==
    /\ Judged
    /\ Range(readings) = {511}
    /\ judgment = "warning"

\* the first poll of an exchange's readiness wait
FirstPollPcs == {"wait_ready", "ready_wait", "rrv_wait", "swap_wait", "pg_wait", "tp_wait",
                 "dbg_wait"}

\* this step begins an exchange
ExchangeBegins == pc' \in FirstPollPcs /\ pc' # pc

\* a step of a session: an exchange begins only after an exchange of 25
\* pulses or of none, and nothing is done after the stop signal
SessionStep ==
    /\ ExchangeBegins => (pulses \in {0, 25} /\ pulses' = 0)
    /\ pc # "stopped"

\* C23: an exchange begins only when the exchange before it emitted all 25
\* clock pulses or timed out with none; after a stop signal, also one that
\* cut the shift loop part-way, the session issues no further exchange.
C23_NoExchangeAfterPartial == [][SessionStep]_vars

\* the stop signal has cut an exchange inside its shift loop
C23_Witness ==
    /\ pc = "stopped"
    /\ pulses > 0
    /\ pulses < DataBits
    /\ Len(bits) = pulses

\* C24 as stated: check_sck_toggle returns True only when the 24 data bits
\* it clocked out are neither all ones nor all zeros, whatever was sampled
\* after the 25th pulse.
C24_ToggleVerdict ==
    (prog = "diagnose" /\ pc = "read_raw_value" /\ comm_ok) =>
        /\ Len(dout_states) = 25
        /\ word = MsbFirst(SubSeq(dout_states, 1, 24))
        /\ word # 0
        /\ word # 16777215

\* 24 zero bits and a HIGH sample after the 25th pulse: check_sck_toggle
\* returned True
C24_Witness ==
    /\ prog = "diagnose"
    /\ pc = "read_raw_value"
    /\ comm_ok
    /\ Len(dout_states) = 25
    /\ word = 0
    /\ dout_states[25] = 1

\* one poll of wait_ready
WaitReadyPolls == prog = "scale" /\ pc = "wait_ready"

\* from here a poll of wait_ready that reads LOW makes it return True
LowIsReady ==
    ENABLED (WaitReadyPolls /\ wait_ready /\ pc' = "sck_high" /\ sawLow' /\ elapsed' = 0)

\* C27: wait_ready returns True only on a poll that read LOW and False only
\* on a poll that read HIGH with more than the timeout elapsed; the line is
\* polled before the deadline is looked at, so a LOW poll returns True
\* whatever the time elapsed, the first one without any sleep; it goes on
\* polling only after a HIGH poll within the timeout.
C27_WaitReadyAgreesWithPoll ==
    /\ WaitReadyPolls => LowIsReady
    /\ (prog = "scale" /\ pc = "sck_high" /\ i = 0) => (sawLow /\ pulses = 0)
    /\ (prog = "scale" /\ pc = "read_raw_ret" /\ i = 0) =>
            (~sawLow /\ elapsed > WaitReadyTimeout /\ val = None)
    /\ (WaitReadyPolls /\ elapsed > 0) => ~sawLow

\* wait_ready is polling with the deadline behind it, and a LOW poll still
\* makes it return True
C27_Witness ==
    /\ WaitReadyPolls
    /\ elapsed > WaitReadyTimeout
    /\ LowIsReady

\* TIMEOUT lines that debug_continuous.py has printed
TimeoutLines == Len(SelectSeq(reports, LAMBDA s : s = "Timeout"))

\* C28 as stated: in debug_continuous.py every line printed, a TIMEOUT line
\* included, ends its attempt, and the next attempt takes a fresh deadline:
\* the counter is the number of attempts ended, one per deadline taken.
C28_FreshDeadlinePerAttempt ==
    prog = "debug" =>
        /\ count = Len(reports)
        /\ count <= deadlines
        /\ deadlines <= count + 1

\* two TIMEOUT lines under the one deadline that was ever taken
C28_Witness ==
    /\ prog = "debug"
    /\ pc = "dbg_wait"
    /\ deadlines = 1
    /\ count = 2
    /\ TimeoutLines = 2

\* test_reading_formats has returned; its locals are still in view
FormatsTried == prog = "test_scale" /\ pc = "tf_done"

\* the orderings that were not flagged SUSPICIOUS
Unflagged == {j \in DOMAIN flags : ~flags[j]}

\* the earliest of the unflagged orderings with the least spread
Selected ==
    CHOOSE j \in Unflagged :
        /\ \A m \in Unflagged : spreads[j] <= spreads[m]
        /\ \A m \in Unflagged : (spreads[m] = spreads[j]) => j <= m

\* C25: after the four orderings were tried in the order MSB/MSB, MSB/LSB,
\* LSB/MSB, LSB/LSB, the device is left configured with the earliest of the
\* orderings not flagged suspicious whose max - min spread is least among
\* them, and with MSB/MSB, nothing being selected, exactly when all four
\* were flagged.
C25_BestFormat ==
    FormatsTried =>
        /\ Len(flags) = 4
        /\ Len(spreads) = 4
        /\ IF Unflagged = {}
           THEN best_format = None /\ format = << "MSB", "MSB" >>
           ELSE /\ best_format = Some(Formats[Selected])
                /\ format = Formats[Selected]
                /\ best_variance = Some(spreads[Selected])

\* the second and the fourth ordering tie on the least spread, the first
\* was flagged, and the second is the one selected
C25_Witness ==
    /\ FormatsTried
    /\ flags = << TRUE, FALSE, FALSE, FALSE >>
    /\ spreads[2] = spreads[4]
    /\ spreads[3] > spreads[2]
    /\ format = << "MSB", "LSB" >>

\* a round of test_reading_formats has just judged its window
RoundJudged == prog = "test_scale" /\ pc = "tf_format" /\ flags # << >>

\* C26 as stated: an ordering is flagged SUSPICIOUS only if one of its
\* readings is positive and of the form 2^n - 1; a window without a positive
\* reading is not flagged.
C26_FlagNeedsPattern ==
    RoundJudged =>
        /\ flags[Len(flags)] => (\E j \in DOMAIN readings : PowerOfTwoMinusOne(readings[j]))
        /\ (\A j \in DOMAIN readings : readings[j] <= 0) => ~flags[Len(flags)]

\* the first ordering read -1 five times, was flagged, and is not the best
\* format
C26_Witness ==
    /\ RoundJudged
    /\ Len(flags) = 1
    /\ Range(readings) = {-1}
    /\ flags[1]
    /\ best_format = None

====
